---- MODULE Spec2Model ----
(***************************************************************************)
(* Model of the system-stats-monitoring metrics pipeline:                  *)
(*   - the agent's rate engine (stats.CalculateNetworkRates) and its       *)
(*     dispatch loop (cmd/monitor main, collectAndSendStats);              *)
(*   - the server's ingestion path (StatsHandler.PostStats and             *)
(*     InfluxDBWriter.WriteStats) writing points to the Store;             *)
(*   - the status derivation of the dashboard reader                       *)
(*     (GetHostOverviewList, GetHostDetails).                              *)
(*                                                                         *)
(* Units.  Time is counted in whole seconds.  Percentages are whole        *)
(* percent.  A float64 rate is kept as an exact fraction in lowest terms   *)
(* (floating-point rounding is not modelled).  The uint64 counters of the  *)
(* code are kept at a reduced width of CounterBits bits, so that the       *)
(* wrap-around of an unsigned subtraction stays visible.                   *)
(***************************************************************************)
EXTENDS Integers, Sequences, FiniteSets, TLC

VARIABLES
    rateCall,                   \* one call of CalculateNetworkRates: arguments and return
    agentPc,                    \* position of the agent's main goroutine
    now,                        \* the agent's monotonic clock (time.Now)
    previousNetCounters,        \* cmd/monitor package variable
    previousNetCollectionTime,  \* cmd/monitor package variable
    networkStatsInitialized,    \* cmd/monitor package variable
    tickPending,                \* a value is buffered in ticker.C
    ctxCancelled,               \* cancel() has been called (ctx.Done closed)
    lastTick,                   \* what the last collectAndSendStats did
    ticks,                      \* the calls of collectAndSendStats that have not returned
    store,                      \* the points the Store holds
    request,                    \* the payload PostStats was called with
    writes,                     \* the WritePoint calls of that request, in order
    response,                   \* the HTTP response of that request
    statusCall,                 \* one status derivation: inputs and both results
    overviewCall,               \* the last GET hosts/overview: inputs and response
    detailsCall,                \* the last GET host/:hostID/details
    joinCall,                   \* one process join: the two legs and the list
    historyCall,                \* the last GET host/:hostID/metrics/:metricName
    tickCall,                   \* one collectAndSendStats: the probes' outcomes and the snapshot
    handlers                    \* the PostStats requests being served, each with its own state

rateVars   == <<rateCall>>
agentVars  == <<agentPc, now, previousNetCounters, previousNetCollectionTime,
                networkStatsInitialized, tickPending, ctxCancelled, lastTick,
                ticks>>
ingestVars == <<store, request, writes, response>>
statusVars == <<statusCall>>
queryVars  == <<overviewCall, detailsCall, joinCall, historyCall>>
probeVars  == <<tickCall>>
serveVars  == <<handlers>>
vars == <<rateCall, agentPc, now, previousNetCounters, previousNetCollectionTime,
          networkStatsInitialized, tickPending, ctxCancelled, lastTick, ticks,
          store, request, writes, response, statusCall,
          overviewCall, detailsCall, joinCall, historyCall, tickCall, handlers>>

-----------------------------------------------------------------------------
(* Bounds of the model *)

\* width of a network counter (uint64 in the code), reduced
CounterBits == 2
\* largest raw counter value the OS probe returns
MaxCounter == 2
\* largest elapsed duration handed to the rate engine
MaxDuration == 2
\* the agent's clock stops advancing here
MaxClock == 2

-----------------------------------------------------------------------------
(* Rate engine: internal/stats/stats.go *)

Modulus == 2 ^ CounterBits

CounterValues == 0..MaxCounter

\* net.IOCountersStat, the four cumulative counters the rate engine reads
IOCountersStat ==
    [BytesSent : CounterValues, BytesRecv : CounterValues,
     PacketsSent : CounterValues, PacketsRecv : CounterValues]

ZeroCounters ==
    [BytesSent |-> 0, BytesRecv |-> 0, PacketsSent |-> 0, PacketsRecv |-> 0]

RECURSIVE GCD(_, _)
GCD(a, b) == IF b = 0 THEN a ELSE GCD(b, a % b)

\* float64(n) / d for d > 0, as an exact fraction in lowest terms
Ratio(n, d) ==
    LET g == GCD(n, d)
    IN  [num |-> n \div g, den |-> d \div g]

ZeroRate == [num |-> 0, den |-> 1]

\* the zero value of stats.NetworkData with the given interface name
NetworkData(name) ==
    [InterfaceName |-> name,
     BytesSentPeriod |-> 0, BytesRecvPeriod |-> 0,
     PacketsSentPeriod |-> 0, PacketsRecvPeriod |-> 0,
     UploadBytesPerSec |-> ZeroRate, DownloadBytesPerSec |-> ZeroRate]

\* a - b on unsigned integers of CounterBits bits
SubUint(a, b) == (a - b) % Modulus

\* a mutation of Rates: the operands of each subtraction swapped
RatesSwapped(current, previous, duration) ==
    LET sent == SubUint(previous.BytesSent, current.BytesSent)
        recv == SubUint(previous.BytesRecv, current.BytesRecv)
    IN  [InterfaceName |-> "all",
         BytesSentPeriod |-> sent,
         BytesRecvPeriod |-> recv,
         PacketsSentPeriod |-> SubUint(previous.PacketsSent, current.PacketsSent),
         PacketsRecvPeriod |-> SubUint(previous.PacketsRecv, current.PacketsRecv),
         UploadBytesPerSec |-> Ratio(sent, duration),
         DownloadBytesPerSec |-> Ratio(recv, duration)]

\* the body of CalculateNetworkRates past its duration check: the four deltas
\* by unsigned subtraction, the two byte rates by division
Rates(current, previous, duration) ==
    LET sent == SubUint(current.BytesSent, previous.BytesSent)
        recv == SubUint(current.BytesRecv, previous.BytesRecv)
    IN  [InterfaceName |-> "all",
         BytesSentPeriod |-> sent,
         BytesRecvPeriod |-> recv,
         PacketsSentPeriod |-> SubUint(current.PacketsSent, previous.PacketsSent),
         PacketsRecvPeriod |-> SubUint(current.PacketsRecv, previous.PacketsRecv),
         UploadBytesPerSec |-> Ratio(sent, duration),
         DownloadBytesPerSec |-> Ratio(recv, duration)]

\* a mutation of CalculateNetworkRates: a zero duration is let through
\* (the division by zero then yields no finite rate; the rates stay zero here)
CalculateNetworkRatesZeroAllowed(current, previous, duration) ==
    IF duration < 0
    THEN [data |-> NetworkData("all"), err |-> TRUE]
    ELSE IF duration = 0
    THEN [data |-> [Rates(current, previous, 1) EXCEPT
                      !.UploadBytesPerSec = ZeroRate,
                      !.DownloadBytesPerSec = ZeroRate],
          err |-> FALSE]
    ELSE [data |-> Rates(current, previous, duration), err |-> FALSE]

\* stats.CalculateNetworkRates: (NetworkData, error)
CalculateNetworkRates(current, previous, duration) ==
    IF duration <= 0
    THEN [data |-> NetworkData("all"), err |-> TRUE]
    ELSE [data |-> Rates(current, previous, duration), err |-> FALSE]

NoReturn == [data |-> NetworkData(""), err |-> FALSE, returned |-> FALSE]

NoRateCall ==
    [current |-> ZeroCounters, previous |-> ZeroCounters, duration |-> 0,
     ret |-> NoReturn]

\* the durations a caller may pass: negative, zero and positive
Durations == -1..MaxDuration

\* the call is made on the arguments the initial state has drawn
RateEngineCall ==
    /\ ~rateCall.ret.returned
    /\ LET r == CalculateNetworkRates(rateCall.current, rateCall.previous,
                                      rateCall.duration)
       IN  rateCall' = [rateCall EXCEPT
                          !.ret = [data |-> r.data, err |-> r.err, returned |-> TRUE]]
    /\ UNCHANGED <<agentVars, ingestVars, statusVars, queryVars, probeVars, serveVars>>

-----------------------------------------------------------------------------
(* Dispatch loop: cmd/monitor/main.go *)

\* the counter samples the OS probe hands the agent: the packet counters
\* follow the byte counters, which keeps the agent's state space small
AgentSamples ==
    {[BytesSent |-> a, BytesRecv |-> b, PacketsSent |-> a, PacketsRecv |-> b] :
        a \in CounterValues, b \in CounterValues}

NoTick ==
    [ran |-> FALSE, CollectedAt |-> 0, readErr |-> FALSE, rateCalled |-> FALSE,
     current |-> ZeroCounters, previous |-> ZeroCounters, duration |-> 0,
     rateErr |-> FALSE, Network |-> NetworkData(""), sent |-> FALSE, sendOk |-> FALSE,
     sends |-> 0]

\* a mutation of TickNetwork: the data of a failed rate computation is kept,
\* with the byte delta of the sample in it
TickNetworkKeepsFailed(readErr, initialized, r) ==
    IF readErr \/ ~initialized THEN NetworkData("")
    ELSE IF r.err THEN [r.data EXCEPT !.BytesSentPeriod = 1]
    ELSE r.data

\* hostStats.Network as collectAndSendStats leaves it (lines 153-173):
\* the zero value when the counters cannot be read or the baseline is not
\* initialized, NetworkData{InterfaceName: "all"} when the rate engine fails,
\* the rate engine's data otherwise
TickNetwork(readErr, initialized, r) ==
    IF readErr \/ ~initialized THEN NetworkData("")
    ELSE IF r.err THEN NetworkData("all")
    ELSE r.data

\* a mutation of collectAndSendStats: the stored pair is replaced only
\* when the rate computation succeeds
collectAndSendStatsKeeping(readErr, cur) ==
    LET duration == now - previousNetCollectionTime
        r == CalculateNetworkRates(cur, previousNetCounters, duration)
        called == ~readErr /\ networkStatsInitialized
    IN  /\ lastTick' =
              [ran |-> TRUE, CollectedAt |-> now, readErr |-> readErr,
               rateCalled |-> called,
               current |-> IF readErr THEN ZeroCounters ELSE cur,
               previous |-> previousNetCounters,
               duration |-> IF called THEN duration ELSE 0,
               rateErr |-> called /\ r.err,
               Network |-> TickNetwork(readErr, networkStatsInitialized, r),
               sent |-> TRUE, sendOk |-> FALSE, sends |-> 1]
        /\ IF readErr \/ (called /\ r.err)
           THEN UNCHANGED <<previousNetCounters, previousNetCollectionTime>>
           ELSE /\ previousNetCounters' = cur
                /\ previousNetCollectionTime' = now

\* collectAndSendStats(ctx), lines 130-188: one sampling tick, up to the
\* call of SendStatsJSON; the call returns in SendReturns.
\* readErr: GetCurrentIOCounters fails; cur: the sample it returns otherwise.
collectAndSendStats(readErr, cur) ==
    LET duration == now - previousNetCollectionTime
        r == CalculateNetworkRates(cur, previousNetCounters, duration)
        called == ~readErr /\ networkStatsInitialized
    IN  /\ lastTick' =
              [ran |-> TRUE, CollectedAt |-> now, readErr |-> readErr,
               rateCalled |-> called,
               current |-> IF readErr THEN ZeroCounters ELSE cur,
               previous |-> previousNetCounters,
               duration |-> IF called THEN duration ELSE 0,
               rateErr |-> called /\ r.err,
               Network |-> TickNetwork(readErr, networkStatsInitialized, r),
               sent |-> TRUE, sendOk |-> FALSE, sends |-> 1]
        /\ IF readErr
           THEN UNCHANGED <<previousNetCounters, previousNetCollectionTime>>
           ELSE /\ previousNetCounters' = cur
                /\ previousNetCollectionTime' = now

\* collectAndSendStats when GetDiskUsageInfo (line 182) panics: disk.Usage
\* returns a nil *UsageStat with its error and stats.go line 319 reads
\* usage.Path.  The counters of lines 153-173 are stored by then; nothing
\* recovers the panic, so the process ends before the send.
collectPanics(readErr, cur) ==
    /\ agentPc' = "panicked"
    /\ IF readErr
       THEN UNCHANGED <<previousNetCounters, previousNetCollectionTime>>
       ELSE /\ previousNetCounters' = cur
            /\ previousNetCollectionTime' = now
    /\ UNCHANGED <<lastTick, ticks>>

\* SendStatsJSON returns nil or an error; it cannot return nil once ctx is
\* cancelled
SendOutcomes == IF ctxCancelled THEN {FALSE} ELSE BOOLEAN

\* no call of collectAndSendStats is outstanding; skipped: the loop took a
\* value of the ticker and found the context cancelled (line 117)
NoTicks == [inFlight |-> 0, skipped |-> FALSE]

\* main, lines 81-88: the baseline sample; log.Fatalf when it cannot be read
MainBaseline ==
    /\ agentPc = "start"
    /\ \E readErr \in BOOLEAN, cur \in AgentSamples :
          IF readErr
          THEN /\ agentPc' = "fatal"
               /\ UNCHANGED <<previousNetCounters, previousNetCollectionTime,
                              networkStatsInitialized>>
          ELSE /\ agentPc' = "initial"
               /\ previousNetCounters' = cur
               /\ previousNetCollectionTime' = now
               /\ networkStatsInitialized' = TRUE
    /\ UNCHANGED <<now, tickPending, ctxCancelled, lastTick, ticks>>
    /\ UNCHANGED <<rateVars, ingestVars, statusVars, queryVars, probeVars, serveVars>>

\* main, line 112: the initial collection before the loop is called
InitialCollect ==
    /\ agentPc = "initial"
    /\ \E readErr \in BOOLEAN, diskErr \in BOOLEAN, cur \in AgentSamples :
          IF diskErr
          THEN collectPanics(readErr, cur)
          ELSE /\ collectAndSendStats(readErr, cur)
               /\ agentPc' = "sending"
               /\ ticks' = [ticks EXCEPT !.inFlight = @ + 1]
    /\ UNCHANGED <<now, networkStatsInitialized, tickPending, ctxCancelled>>
    /\ UNCHANGED <<rateVars, ingestVars, statusVars, queryVars, probeVars, serveVars>>

\* a mutation of LoopTick: the collection runs in a goroutine of its own
\* and the loop goes back to its select
LoopTickDetached ==
    /\ agentPc = "loop"
    /\ tickPending
    /\ tickPending' = FALSE
    /\ IF ~ctxCancelled
       THEN \E readErr \in BOOLEAN, diskErr \in BOOLEAN, cur \in AgentSamples :
               IF diskErr
               THEN collectPanics(readErr, cur)
               ELSE /\ collectAndSendStats(readErr, cur)
                    /\ ticks' = [ticks EXCEPT !.inFlight = @ + 1]
                    /\ UNCHANGED agentPc
       ELSE /\ ticks' = [ticks EXCEPT !.skipped = TRUE]
            /\ UNCHANGED <<agentPc, previousNetCounters, previousNetCollectionTime,
                           lastTick>>
    /\ UNCHANGED <<now, networkStatsInitialized, ctxCancelled>>
    /\ UNCHANGED <<rateVars, ingestVars, statusVars, queryVars, probeVars, serveVars>>

\* a mutation of LoopTick: the loop does not look at ctx.Err()
LoopTickUnchecked ==
    /\ agentPc = "loop"
    /\ tickPending
    /\ tickPending' = FALSE
    /\ \E readErr \in BOOLEAN, diskErr \in BOOLEAN, cur \in AgentSamples :
          IF diskErr
          THEN collectPanics(readErr, cur)
          ELSE /\ collectAndSendStats(readErr, cur)
               /\ agentPc' = "sending"
               /\ ticks' = [ticks EXCEPT !.inFlight = @ + 1]
    /\ UNCHANGED <<now, networkStatsInitialized, ctxCancelled>>
    /\ UNCHANGED <<rateVars, ingestVars, statusVars, queryVars, probeVars, serveVars>>

\* main, lines 116-119: the select takes the ticker's value and, when the
\* context is not cancelled, calls collectAndSendStats
LoopTick ==
    /\ agentPc = "loop"
    /\ tickPending
    /\ tickPending' = FALSE
    /\ IF ~ctxCancelled
       THEN \E readErr \in BOOLEAN, diskErr \in BOOLEAN, cur \in AgentSamples :
               IF diskErr
               THEN collectPanics(readErr, cur)
               ELSE /\ collectAndSendStats(readErr, cur)
                    /\ agentPc' = "sending"
                    /\ ticks' = [ticks EXCEPT !.inFlight = @ + 1]
       ELSE /\ ticks' = [ticks EXCEPT !.skipped = TRUE]
            /\ UNCHANGED <<agentPc, previousNetCounters, previousNetCollectionTime,
                           lastTick>>
    /\ UNCHANGED <<now, networkStatsInitialized, ctxCancelled>>
    /\ UNCHANGED <<rateVars, ingestVars, statusVars, queryVars, probeVars, serveVars>>

\* a mutation of SendReturns: a snapshot whose send failed is sent again
SendReturnsRetrying ==
    /\ agentPc = "sending"
    /\ \E sendOk \in SendOutcomes :
          /\ lastTick' = [lastTick EXCEPT !.sendOk = sendOk,
                                           !.sends = IF sendOk THEN @ ELSE @ + 1]
          /\ agentPc' = IF sendOk THEN "loop" ELSE "sending"
          /\ ticks' = [ticks EXCEPT !.inFlight = IF sendOk THEN @ - 1 ELSE @]
    /\ UNCHANGED <<now, previousNetCounters, previousNetCollectionTime,
                   networkStatsInitialized, tickPending, ctxCancelled>>
    /\ UNCHANGED <<rateVars, ingestVars, statusVars, queryVars, probeVars, serveVars>>

\* SendStatsJSON (line 188) and with it collectAndSendStats return, with
\* nil or with the error that lines 189-195 log: main goes on to the select
\* of the loop
SendReturns ==
    /\ agentPc = "sending"
    /\ \E sendOk \in SendOutcomes : lastTick' = [lastTick EXCEPT !.sendOk = sendOk]
    /\ agentPc' = "loop"
    /\ ticks' = [ticks EXCEPT !.inFlight = @ - 1]
    /\ UNCHANGED <<now, previousNetCounters, previousNetCollectionTime,
                   networkStatsInitialized, tickPending, ctxCancelled>>
    /\ UNCHANGED <<rateVars, ingestVars, statusVars, queryVars, probeVars, serveVars>>

\* a mutation of LoopDone: main returns as soon as the context is
\* cancelled, whatever it is doing
LoopDoneAtOnce ==
    /\ agentPc \in {"loop", "sending"}
    /\ ctxCancelled
    /\ agentPc' = "exited"
    /\ UNCHANGED <<now, previousNetCounters, previousNetCollectionTime,
                   networkStatsInitialized, tickPending, ctxCancelled, lastTick,
                   ticks>>
    /\ UNCHANGED <<rateVars, ingestVars, statusVars, queryVars, probeVars, serveVars>>

\* main, lines 120-125: the select takes ctx.Done and main returns
LoopDone ==
    /\ agentPc = "loop"
    /\ ctxCancelled
    /\ agentPc' = "exited"
    /\ UNCHANGED <<now, previousNetCounters, previousNetCollectionTime,
                   networkStatsInitialized, tickPending, ctxCancelled, lastTick,
                   ticks>>
    /\ UNCHANGED <<rateVars, ingestVars, statusVars, queryVars, probeVars, serveVars>>

\* the ticker (line 104) puts a value in its channel of capacity one; a
\* value that finds the channel full is dropped
TimerFire ==
    /\ agentPc \in {"initial", "sending", "loop"}
    /\ ~tickPending
    /\ tickPending' = TRUE
    /\ UNCHANGED <<agentPc, now, previousNetCounters, previousNetCollectionTime,
                   networkStatsInitialized, ctxCancelled, lastTick, ticks>>
    /\ UNCHANGED <<rateVars, ingestVars, statusVars, queryVars, probeVars, serveVars>>

\* the signal goroutine (lines 98-102) calls cancel()
Signal ==
    /\ agentPc \in {"initial", "sending", "loop"}
    /\ ~ctxCancelled
    /\ ctxCancelled' = TRUE
    /\ UNCHANGED <<agentPc, now, previousNetCounters, previousNetCollectionTime,
                   networkStatsInitialized, tickPending, lastTick, ticks>>
    /\ UNCHANGED <<rateVars, ingestVars, statusVars, queryVars, probeVars, serveVars>>

\* the clock moves on; two readings of time.Now may also be equal
ClockAdvance ==
    /\ agentPc \in {"start", "initial", "sending", "loop"}
    /\ now < MaxClock
    /\ now' = now + 1
    /\ UNCHANGED <<agentPc, previousNetCounters, previousNetCollectionTime,
                   networkStatsInitialized, tickPending, ctxCancelled, lastTick,
                   ticks>>
    /\ UNCHANGED <<rateVars, ingestVars, statusVars, queryVars, probeVars, serveVars>>

-----------------------------------------------------------------------------
(* Sampler: the process filter of internal/stats/stats.go *)

\* cmd/monitor/main.go: maxProcessesUsagePercent = 10.0
maxProcessesUsagePercent == 10

\* a mutation of GetProcessList: both percentages must exceed the limit
GetProcessListBoth(procs, count) ==
    LET Keep(proc) == proc.CPUPercent > count /\ proc.MemoryPercent > count
    IN  SelectSeq(procs, Keep)

\* stats.GetProcessList(count): the processes whose cpu or memory percent
\* exceeds count
GetProcessList(procs, count) ==
    LET Keep(proc) == proc.CPUPercent > count \/ proc.MemoryPercent > count
    IN  SelectSeq(procs, Keep)

-----------------------------------------------------------------------------
(* Ingestion: internal/server/api/stats_handler.go and InfluxDBWriter *)

\* longest disk list and process list of a payload, latest collected_at
MaxDisks == 1
MaxProcesses == 2
MaxTimestamp == 2

SeqsUpTo(S, n) == UNION {[1..k -> S] : k \in 0..n}

HostIDs == {"", "h1"}

\* collected_at; 0 stands for the zero time.Time
Timestamps == 0..MaxTimestamp

CPUUsages == {40, 90}

DiskEntries ==
    {[Path |-> "/", TotalGB |-> 100, UsedGB |-> 50, FreeGB |-> 50, UsagePercent |-> 50],
     [Path |-> "/data", TotalGB |-> 200, UsedGB |-> 190, FreeGB |-> 10, UsagePercent |-> 95]}

\* one process above the limit by its cpu, one by its memory, one below it
ProcessEntries ==
    {[PID |-> 1, Name |-> "a", CPUPercent |-> 20, MemoryPercent |-> 5, Username |-> "u"],
     [PID |-> 2, Name |-> "b", CPUPercent |-> 5, MemoryPercent |-> 20, Username |-> "u"],
     [PID |-> 3, Name |-> "c", CPUPercent |-> 5, MemoryPercent |-> 5, Username |-> "u"]}

\* models.ClientPayload
ClientPayload(ts, hostID, cpu, procs, disks) ==
    [CollectedAt |-> ts,
     System |-> [HostID |-> hostID, Hostname |-> "web"],
     CPU |-> [Usage |-> cpu],
     Memory |-> [TotalGB |-> 16, FreeGB |-> 6, UsagePercent |-> 60],
     Network |-> NetworkData("all"),
     Processes |-> procs,
     Disks |-> disks]

NoTags == [host_id |-> "", hostname |-> "", path |-> "", pid |-> <<>>, name |-> ""]

\* string(proc.PID): the string of the one rune whose code point is the pid,
\* kept as the sequence of its code points
PidTag(pid) == <<pid>>

\* the tags common to all points of a payload (WriteStats, lines 583-588)
CommonTags(payload) ==
    [NoTags EXCEPT !.host_id = payload.System.HostID,
                   !.hostname = payload.System.Hostname]

\* the system_metrics point (WriteStats, lines 591-614)
SystemPoint(payload) ==
    [measurement |-> "system_metrics",
     tags |-> CommonTags(payload),
     fields |-> [cpu_usage_percent |-> payload.CPU.Usage,
                 mem_total_gb |-> payload.Memory.TotalGB,
                 mem_used_gb |-> payload.Memory.UsagePercent,
                 mem_available_gb |-> payload.Memory.FreeGB,
                 mem_usage_percent |-> payload.Memory.UsagePercent,
                 net_bytes_sent_period |-> payload.Network.BytesSentPeriod,
                 net_bytes_recv_period |-> payload.Network.BytesRecvPeriod,
                 net_upload_bytes_sec |-> payload.Network.UploadBytesPerSec,
                 net_download_bytes_sec |-> payload.Network.DownloadBytesPerSec],
     time |-> payload.CollectedAt]

\* a disk_metrics point (WriteStats, lines 626-638)
DiskPoint(payload, disk) ==
    [measurement |-> "disk_metrics",
     tags |-> [CommonTags(payload) EXCEPT !.path = disk.Path],
     fields |-> [total_gb |-> disk.TotalGB, used_gb |-> disk.UsedGB,
                 free_gb |-> disk.FreeGB, usage_percent |-> disk.UsagePercent],
     time |-> payload.CollectedAt]

\* a mutation of ProcessPoint: the point is stamped with the zero time
ProcessPointUnstamped(payload, proc) ==
    [measurement |-> "process_metrics",
     tags |-> [CommonTags(payload) EXCEPT !.pid = PidTag(proc.PID),
                                          !.name = proc.Name],
     fields |-> [cpu_percent |-> proc.CPUPercent,
                 mem_percent |-> proc.MemoryPercent,
                 user |-> proc.Username],
     time |-> 0]

\* a process_metrics point (WriteStats, lines 650-662)
ProcessPoint(payload, proc) ==
    [measurement |-> "process_metrics",
     tags |-> [CommonTags(payload) EXCEPT !.pid = PidTag(proc.PID),
                                          !.name = proc.Name],
     fields |-> [cpu_percent |-> proc.CPUPercent,
                 mem_percent |-> proc.MemoryPercent,
                 user |-> proc.Username],
     time |-> payload.CollectedAt]

\* a mutation of WriteStats: the first failed disk or process write ends the
\* call with an error
WriteStatsAborting(payload, rejected) ==
    LET d == Len(payload.Disks)
        p == Len(payload.Processes)
        all == <<[point |-> SystemPoint(payload), ok |-> 1 \notin rejected]>>
                 \o [i \in 1..d |->
                       [point |-> DiskPoint(payload, payload.Disks[i]),
                        ok |-> (1 + i) \notin rejected]]
                 \o [i \in 1..p |->
                       [point |-> ProcessPoint(payload, payload.Processes[i]),
                        ok |-> (1 + d + i) \notin rejected]]
        failed == {i \in 1..Len(all) : ~all[i].ok}
        last == IF failed = {} THEN Len(all)
                ELSE CHOOSE i \in failed : \A j \in failed : i <= j
    IN  [writes |-> SubSeq(all, 1, last), err |-> failed # {}]

\* a mutation of WriteStats: the disk points are written before the system
\* point
WriteStatsDisksFirst(payload, rejected) ==
    LET d == Len(payload.Disks)
        p == Len(payload.Processes)
    IN  IF 1 \in rejected
        THEN [writes |-> <<[point |-> SystemPoint(payload), ok |-> FALSE]>>,
              err |-> TRUE]
        ELSE [writes |->
                 [i \in 1..d |->
                    [point |-> DiskPoint(payload, payload.Disks[i]),
                     ok |-> (1 + i) \notin rejected]]
                 \o <<[point |-> SystemPoint(payload), ok |-> TRUE]>>
                 \o [i \in 1..p |->
                       [point |-> ProcessPoint(payload, payload.Processes[i]),
                        ok |-> (1 + d + i) \notin rejected]],
              err |-> FALSE]

\* InfluxDBWriter.WriteStats: the WritePoint calls it makes, in order, and
\* whether it returns an error.  rejected: the positions, in that order, of
\* the writes the Store fails.
WriteStats(payload, rejected) ==
    LET d == Len(payload.Disks)
        p == Len(payload.Processes)
    IN  IF 1 \in rejected
        THEN [writes |-> <<[point |-> SystemPoint(payload), ok |-> FALSE]>>,
              err |-> TRUE]
        ELSE [writes |->
                 <<[point |-> SystemPoint(payload), ok |-> TRUE]>>
                 \o [i \in 1..d |->
                       [point |-> DiskPoint(payload, payload.Disks[i]),
                        ok |-> (1 + i) \notin rejected]]
                 \o [i \in 1..p |->
                       [point |-> ProcessPoint(payload, payload.Processes[i]),
                        ok |-> (1 + d + i) \notin rejected]],
              err |-> FALSE]

\* the Store keeps one point per measurement, tag set and time: a later
\* write replaces the earlier point of the same series and time
SamePlace(q, point) ==
    /\ q.measurement = point.measurement
    /\ q.tags = point.tags
    /\ q.time = point.time

WritePoint(points, point) == {q \in points : ~SamePlace(q, point)} \cup {point}

RECURSIVE ApplyWrites(_, _)
\* the Store after the accepted writes of a sequence of WritePoint calls
ApplyWrites(points, ws) ==
    IF ws = <<>> THEN points
    ELSE ApplyWrites(IF Head(ws).ok THEN WritePoint(points, Head(ws).point)
                     ELSE points,
                     Tail(ws))

\* the error texts of PostStats; "" when the payload passes
ErrMalformedPayload == "Invalid JSON payload"
ErrMissingHostID == "HostID is missing in system_info"
ErrMissingTimestamp == "CollectedAt timestamp is missing or zero"
ErrStoreWriteFailed == "Failed to store statistics"

\* a mutation of Validate: the timestamp is checked before the host id
ValidateTimestampFirst(body) ==
    IF ~body.parses THEN ErrMalformedPayload
    ELSE IF body.payload.CollectedAt = 0 THEN ErrMissingTimestamp
    ELSE IF body.payload.System.HostID = "" THEN ErrMissingHostID
    ELSE ""

\* the checks of PostStats, lines 29-44, in their order
Validate(body) ==
    IF ~body.parses THEN ErrMalformedPayload
    ELSE IF body.payload.System.HostID = "" THEN ErrMissingHostID
    ELSE IF body.payload.CollectedAt = 0 THEN ErrMissingTimestamp
    ELSE ""

NoRequest ==
    [received |-> FALSE, fromAgent |-> FALSE, osProcesses |-> <<>>,
     rejected |-> {},
     body |-> [parses |-> FALSE, payload |-> ClientPayload(0, "", 0, <<>>, <<>>)]]

NoResponse == [code |-> 0, error |-> ""]

\* StatsHandler.PostStats, lines 25-63, on a body that was read: the checks,
\* the call of WriteStats and the response.  procs: the processes the OS
\* reported to the client; rejected: the writes the Store fails.
ServeStats(fromAgent, procs, body, rejected) ==
    LET verdict == Validate(body)
        w == WriteStats(body.payload, rejected)
    IN  /\ request' = [received |-> TRUE, fromAgent |-> fromAgent,
                       osProcesses |-> procs, rejected |-> rejected,
                       body |-> body]
        /\ IF verdict # ""
           THEN /\ response' = [code |-> 400, error |-> verdict]
                /\ UNCHANGED <<store, writes>>
           ELSE /\ writes' = w.writes
                /\ store' = ApplyWrites(store, w.writes)
                /\ response' =
                      IF w.err
                      THEN [code |-> 500, error |-> ErrStoreWriteFailed]
                      ELSE [code |-> 200, error |-> ""]

\* StatsHandler.PostStats on one request.  An agent's body is the JSON of its
\* snapshot: it parses, its collected_at is the agent's time.Now, and its
\* process list went through GetProcessList; any other client may post
\* anything.
PostStats ==
    /\ ~request.received
    /\ \E fromAgent \in BOOLEAN, parses \in BOOLEAN, ts \in Timestamps,
          hostID \in HostIDs, cpu \in CPUUsages,
          procs \in SeqsUpTo(ProcessEntries, MaxProcesses),
          disks \in SeqsUpTo(DiskEntries, MaxDisks) :
          /\ fromAgent => (parses /\ ts > 0)
          /\ LET sent == IF fromAgent
                         THEN GetProcessList(procs, maxProcessesUsagePercent)
                         ELSE procs
                 body == [parses |-> parses,
                          payload |-> ClientPayload(ts, hostID, cpu, sent, disks)]
                 calls == IF Validate(body) = ""
                          THEN 1 + Len(disks) + Len(sent) ELSE 0
             IN  \E rejected \in SUBSET (1..calls) :
                    ServeStats(fromAgent, procs, body, rejected)
    /\ UNCHANGED <<rateVars, agentVars, statusVars, queryVars, probeVars, serveVars>>

-----------------------------------------------------------------------------
(* Status derivation of the dashboard reader: InfluxDBReader *)

\* activeHostLookback = 30 * time.Second
activeHostLookback == 30
\* the 5 * time.Second added to it in both status tests
offlineGrace == 5
\* the limits of the warning status
usageWarning == 85
diskUsageWarning == 90

\* the largest age of a record (now - LastSeen) a status is derived for
MaxAge == 36

\* a record's time may lie ahead of the reader's clock: the age may be negative
Ages == -1..MaxAge

Percents ==
    {0, 50, 100} \cup ((usageWarning - 1)..(usageWarning + 1))
                 \cup ((diskUsageWarning - 1)..(diskUsageWarning + 1))

\* a mutation of OverviewStatus: the limits are inclusive
OverviewStatusInclusive(age, cpu, ram, disk) ==
    IF age <= activeHostLookback + offlineGrace
    THEN IF cpu >= usageWarning \/ ram >= usageWarning \/ disk >= diskUsageWarning
         THEN "warning"
         ELSE "online"
    ELSE "offline"

\* a mutation of OverviewStatus: the limit is the active window less the
\* grace
OverviewStatusEarly(age, cpu, ram, disk) ==
    IF age <= activeHostLookback - offlineGrace
    THEN IF cpu > usageWarning \/ ram > usageWarning \/ disk > diskUsageWarning
         THEN "warning"
         ELSE "online"
    ELSE "offline"

\* GetHostOverviewList, lines 142-149: the status of one overview entry
OverviewStatus(age, cpu, ram, disk) ==
    IF age <= activeHostLookback + offlineGrace
    THEN IF cpu > usageWarning \/ ram > usageWarning \/ disk > diskUsageWarning
         THEN "warning"
         ELSE "online"
    ELSE "offline"

\* GetHostDetails, lines 444-451: the status of the details; the disk usage
\* is not looked at ("Add disk warning later")
DetailsStatus(age, cpu, ram, disk) ==
    IF age <= activeHostLookback + offlineGrace
    THEN IF cpu > usageWarning \/ ram > usageWarning
         THEN "warning"
         ELSE "online"
    ELSE "offline"

NoStatusCall ==
    [age |-> 0, cpu |-> 0, ram |-> 0, disk |-> 0, overview |-> "", details |-> ""]

\* the status GetHostOverviewList gives a record of the drawn age and usages
OverviewDerivesStatus ==
    /\ statusCall.overview = ""
    /\ statusCall' = [statusCall EXCEPT
                        !.overview = OverviewStatus(statusCall.age, statusCall.cpu,
                                                    statusCall.ram, statusCall.disk)]
    /\ UNCHANGED <<rateVars, agentVars, ingestVars, queryVars, probeVars, serveVars>>

\* the status GetHostDetails gives the same record
DetailsDerivesStatus ==
    /\ statusCall.details = ""
    /\ statusCall' = [statusCall EXCEPT
                        !.details = DetailsStatus(statusCall.age, statusCall.cpu,
                                                  statusCall.ram, statusCall.disk)]
    /\ UNCHANGED <<rateVars, agentVars, ingestVars, queryVars, probeVars, serveVars>>

-----------------------------------------------------------------------------
(* Query engine, overview: InfluxDBReader.GetHostOverviewList and           *)
(* DashboardHandler.GetHostsOverview                                        *)

\* defaultLookbackWindow = 15 * time.Second
defaultLookbackWindow == 15

\* the hosts that post: two host ids, and one host id under two hostnames
QueryHosts ==
    {[HostID |-> "h1", Hostname |-> "web"],
     [HostID |-> "h1", Hostname |-> "db"],
     [HostID |-> "h2", Hostname |-> "db"]}

MemUsages == {60, 90}

\* the disk entries of the snapshots posted to the query engine's Store
RootOK   == [Path |-> "/", TotalGB |-> 100, UsedGB |-> 50, FreeGB |-> 50, UsagePercent |-> 50]
RootFull == [Path |-> "/", TotalGB |-> 100, UsedGB |-> 95, FreeGB |-> 5, UsagePercent |-> 95]
RootOld  == [Path |-> "/", TotalGB |-> 100, UsedGB |-> 70, FreeGB |-> 30, UsagePercent |-> 70]
DataFull == [Path |-> "/data", TotalGB |-> 200, UsedGB |-> 190, FreeGB |-> 10, UsagePercent |-> 95]

\* a payload of one of the hosts
HostSnapshot(ts, host, cpu, mem, procs, disks) ==
    [ClientPayload(ts, host.HostID, cpu, procs, disks) EXCEPT
        !.System.Hostname = host.Hostname,
        !.Memory.UsagePercent = mem]

\* the Store after a payload all of whose writes were accepted
StoreAfter(points, payload) == ApplyWrites(points, WriteStats(payload, {}).writes)

\* the clock readings of the reader; with the latest collected_at they give
\* a record the ages 0, 1, defaultLookbackWindow, activeHostLookback and
\* activeHostLookback + 1, and one second more to the record before it
ReaderTimes ==
    {MaxTimestamp, MaxTimestamp + 1, MaxTimestamp + defaultLookbackWindow,
     MaxTimestamp + activeHostLookback, MaxTimestamp + activeHostLookback + 1}

\* how a query of the Store can fail: Query returns an error, or the result
\* stream ends with an error
QueryFaults == {"none", "query", "stream"}

\* Flux range(start: -w): the records with start <= _time < stop, where
\* stop is now()
InRange(t, at, w) == at - w <= t /\ t < at

\* from(bucket) |> range(start: -w) |> filter(_measurement == measurement)
Matching(points, measurement, at, w) ==
    {p \in points : p.measurement = measurement /\ InRange(p.time, at, w)}

\* last() on the tables of from(): there is one table per series (per tag
\* set), and all fields of a point carry the point's time
LastPerSeries(ps) == {p \in ps : \A q \in ps : q.tags = p.tags => q.time <= p.time}

\* a mutation of systemData: the overview reads the window of the details
systemDataShort(points, at) ==
    LastPerSeries(Matching(points, "system_metrics", at, defaultLookbackWindow))

\* systemData, lines 60-76: one row per (_time, host_id, hostname) of the
\* last records of the series in the active window
systemData(points, at) ==
    LastPerSeries(Matching(points, "system_metrics", at, activeHostLookback))

\* rootDiskUsage, lines 78-88: the possible right-hand streams of the join.
\* group(columns: ["host_id"]) merges the series of a host into one table
\* without sorting it, and last() takes that table's last row: the row of a
\* host is the last record of one of its series.
rootDiskUsage(points, at) ==
    LET rows == LastPerSeries(
                    {p \in Matching(points, "disk_metrics", at, activeHostLookback) :
                        p.tags.path = "/"})
        hosts == {p.tags.host_id : p \in rows}
    IN  {r \in [hosts -> rows] : \A h \in hosts : r[h].tags.host_id = h}

\* sort.Slice(overviews, Hostname <): Go compares the strings byte by byte
HostnameLess(a, b) == a = "db" /\ b = "web"

\* the orders sort.Slice may leave a set of rows in (it is not stable);
\* rank gives each row the place of its sort key among the keys
SortedBy(rows, rank) ==
    LET n == Cardinality(rows)
    IN  {s \in [1..n -> rows] :
            /\ \A i, j \in 1..n : i # j => s[i] # s[j]
            /\ \A i, j \in 1..n : i < j => rank[s[i]] <= rank[s[j]]}

\* the place of a row's hostname among the hostnames of the rows
ByHostname(rows) ==
    [r \in rows |->
        Cardinality({q.Hostname : q \in {x \in rows : HostnameLess(x.Hostname, r.Hostname)}})]

\* one models.HostOverviewData, lines 130-150, from a row of the left join
\* (lines 90-105); right: the rootDiskUsage stream
HostOverviewData(l, right, at) ==
    LET disk == IF l.tags.host_id \in DOMAIN right
                THEN right[l.tags.host_id].fields.usage_percent
                ELSE 0
    IN  [ID |-> l.tags.host_id,
         Hostname |-> l.tags.hostname,
         CPUUsage |-> l.fields.cpu_usage_percent,
         RAMUsage |-> l.fields.mem_usage_percent,
         DiskUsage |-> disk,
         NetworkUpload |-> l.fields.net_upload_bytes_sec,
         NetworkDownload |-> l.fields.net_download_bytes_sec,
         LastSeen |-> l.time,
         Status |-> OverviewStatus(at - l.time, l.fields.cpu_usage_percent,
                                   l.fields.mem_usage_percent, disk)]

\* a mutation of GetHostOverviewList: the row takes the cpu usage for the
\* memory usage
GetHostOverviewListCpuForMem(points, at, fault) ==
    IF fault # "none" THEN {[err |-> TRUE, list |-> <<>>]}
    ELSE LET Row(l, right) == [HostOverviewData(l, right, at) EXCEPT
                                  !.RAMUsage = l.fields.cpu_usage_percent]
             Rows(right) == {Row(l, right) : l \in systemData(points, at)}
         IN  UNION {
               {[err |-> FALSE, list |-> s] :
                   s \in SortedBy(Rows(right), ByHostname(Rows(right)))} :
               right \in rootDiskUsage(points, at)}

\* InfluxDBReader.GetHostOverviewList, lines 55-163: the returns it can make
\* at clock reading at
GetHostOverviewList(points, at, fault) ==
    IF fault # "none" THEN {[err |-> TRUE, list |-> <<>>]}
    ELSE LET Rows(right) == {HostOverviewData(l, right, at) :
                                l \in systemData(points, at)}
         IN  UNION {
               {[err |-> FALSE, list |-> s] :
                   s \in SortedBy(Rows(right), ByHostname(Rows(right)))} :
               right \in rootDiskUsage(points, at)}

NoOverviewCall == [called |-> FALSE, at |-> 0, fault |-> "none", code |-> 0, body |-> <<>>]

\* DashboardHandler.GetHostsOverview, lines 28-39, on one request
GetHostsOverview ==
    /\ ~overviewCall.called
    /\ \E at \in ReaderTimes, fault \in QueryFaults :
          \E ret \in GetHostOverviewList(store, at, fault) :
             overviewCall' =
                 [called |-> TRUE, at |-> at, fault |-> fault,
                  code |-> IF ret.err THEN 500 ELSE 200,
                  body |-> ret.list]
    /\ UNCHANGED <<detailsCall, joinCall, historyCall>>
    /\ UNCHANGED <<rateVars, agentVars, ingestVars, statusVars, probeVars, serveVars>>

\* a POST /api/stats of one of the hosts' snapshots; the response of a GET
\* made before it is dropped from the record
PostSnapshot ==
    /\ ~request.received
    /\ \E host \in QueryHosts, ts \in Timestamps, cpu \in CPUUsages,
          mem \in MemUsages,
          disks \in SeqsUpTo({RootOK, DataFull}, MaxDisks) :
          LET body == [parses |-> TRUE,
                       payload |-> HostSnapshot(ts, host, cpu, mem, <<>>, disks)]
              calls == IF Validate(body) = "" THEN 1 + Len(disks) ELSE 0
          IN  \E rejected \in SUBSET (1..calls) :
                 ServeStats(FALSE, <<>>, body, rejected)
    /\ overviewCall' = NoOverviewCall
    /\ UNCHANGED <<detailsCall, joinCall, historyCall>>
    /\ UNCHANGED <<rateVars, agentVars, statusVars, probeVars, serveVars>>

\* the Stores an overview specification starts from: empty, or holding one
\* earlier snapshot
EarlierStores ==
    {{}} \cup
    {StoreAfter({}, HostSnapshot(ts, host, 40, 60, <<>>, disks)) :
        host \in QueryHosts, ts \in 1..MaxTimestamp, disks \in {<<>>, <<RootOld>>}}

-----------------------------------------------------------------------------
(* Query engine, details: InfluxDBReader.GetHostDetails and                 *)
(* DashboardHandler.GetHostDetailsByID                                      *)

\* the code points of the process names of the model
Runes(s) ==
    CASE s = "a" -> <<97>>
      [] s = "b" -> <<98>>
      [] s = "c" -> <<99>>
      [] s = "_c" -> <<95, 99>>
      [] OTHER -> <<>>

\* the code points of the decimal digits, '0' to '9'
Digits == 48..57

RECURSIVE Decimal(_)
\* the number a string of decimal digits stands for
Decimal(digits) ==
    IF digits = <<>> THEN 0
    ELSE 10 * Decimal(SubSeq(digits, 1, Len(digits) - 1))
           + (digits[Len(digits)] - 48)

\* fmt.Sscan(pidStr, &pidVal), lines 356-359 and 413-416: pidVal is the
\* number when pidStr is a string of decimal digits; on an error it keeps
\* its zero value
Sscan(pidStr) ==
    IF pidStr # <<>> /\ \A i \in 1..Len(pidStr) : pidStr[i] \in Digits
    THEN Decimal(pidStr)
    ELSE 0

\* fmt.Sprintf("%s_%s", pidStr, nameStr), lines 361 and 406
processKey(pidStr, nameStr) == pidStr \o <<95>> \o Runes(nameStr)

\* one leg of the process query, lines 328-336 and 377-385: the possible
\* result streams.  group(columns: ["host_id", "pid", "name"]) merges the
\* series of a process without sorting them and last() takes the last row:
\* the record of a process is the last record of one of its series.
ProcessLeg(points, hostID, at, field) ==
    LET ps == {p \in Matching(points, "process_metrics", at, defaultLookbackWindow) :
                  p.tags.host_id = hostID}
        rows == LastPerSeries(ps)
        groups == {<<p.tags.pid, p.tags.name>> : p \in rows}
        picks == {c \in [groups -> rows] :
                     \A g \in groups : <<c[g].tags.pid, c[g].tags.name>> = g}
    IN  {{[pid |-> g[1], name |-> g[2], value |-> c[g].fields[field]] : g \in groups} :
            c \in picks}

\* the orders a stream can deliver a set of records in
Streams(recs) ==
    LET n == Cardinality(recs)
    IN  {s \in [1..n -> recs] : \A i, j \in 1..n : i # j => s[i] # s[j]}

\* the records of a leg the loop gets to see, in their order: none when
\* Query fails, those read before the error when the stream fails
LegSeen(recordSets, fault) ==
    CASE fault = "query"  -> {<<>>}
      [] fault = "stream" ->
            UNION {UNION {{SubSeq(s, 1, k) : k \in 0..Len(s)} : s \in Streams(recs)} :
                      recs \in recordSets}
      [] OTHER            -> UNION {Streams(recs) : recs \in recordSets}

\* processMap[key] = detail
Put(m, key, detail) == [k \in DOMAIN m \cup {key} |-> IF k = key THEN detail ELSE m[k]]

\* make(map[string]*models.ProcessDetail), line 325
EmptyMap == [k \in {} |-> 0]

RECURSIVE PhaseA(_)
\* phase A, lines 343-370: the memory leg seeds the map
PhaseA(memRecs) ==
    IF memRecs = <<>> THEN EmptyMap
    ELSE LET r == memRecs[Len(memRecs)]
         IN  Put(PhaseA(SubSeq(memRecs, 1, Len(memRecs) - 1)),
                 processKey(r.pid, r.name),
                 [PID |-> Sscan(r.pid), Name |-> r.name,
                  MemoryPercent |-> r.value, CPUPercent |-> 0])

RECURSIVE PhaseBReplacing(_, _)
\* a mutation of PhaseB: the entry of phase A is replaced, not updated
PhaseBReplacing(m, cpuRecs) ==
    IF cpuRecs = <<>> THEN m
    ELSE LET r == cpuRecs[Len(cpuRecs)]
             before == PhaseBReplacing(m, SubSeq(cpuRecs, 1, Len(cpuRecs) - 1))
         IN  Put(before, processKey(r.pid, r.name),
                 [PID |-> Sscan(r.pid), Name |-> r.name,
                  MemoryPercent |-> 0, CPUPercent |-> r.value])

RECURSIVE PhaseB(_, _)
\* phase B, lines 392-426: the cpu leg updates the entry of its key, or
\* inserts one with memory 0
PhaseB(m, cpuRecs) ==
    IF cpuRecs = <<>> THEN m
    ELSE LET r == cpuRecs[Len(cpuRecs)]
             before == PhaseB(m, SubSeq(cpuRecs, 1, Len(cpuRecs) - 1))
             key == processKey(r.pid, r.name)
         IN  IF key \in DOMAIN before
             THEN Put(before, key, [before[key] EXCEPT !.CPUPercent = r.value])
             ELSE Put(before, key,
                      [PID |-> Sscan(r.pid), Name |-> r.name,
                       MemoryPercent |-> 0, CPUPercent |-> r.value])

\* a mutation of finalProcesses: the list is sorted by pid descending
finalProcessesDescending(m) ==
    LET ByPID == [k \in DOMAIN m |-> 0 - m[k].PID]
    IN  {[i \in 1..Len(s) |-> m[s[i]]] : s \in SortedBy(DOMAIN m, ByPID)}

\* lines 433-441: the values of the map in the order of its iteration,
\* sorted by PID with sort.Slice
finalProcesses(m) ==
    LET ByPID == [k \in DOMAIN m |-> m[k].PID]
    IN  {[i \in 1..Len(s) |-> m[s[i]]] : s \in SortedBy(DOMAIN m, ByPID)}

\* lines 325-441: the process lists the records of the two legs are joined to
JoinProcesses(memRecs, cpuRecs) == finalProcesses(PhaseB(PhaseA(memRecs), cpuRecs))

\* the texts of GetHostDetails' errors, as the lists of their parts
ErrQuerySystem == <<"query influxdb for host details (system): ", "unavailable">>
ErrSystemStream(hostID) ==
    <<"no data found for host ", hostID, " or query error: ", "unavailable">>
ErrNoSystemData(hostID) == <<"no system data found for host_id: ", hostID>>

\* a host id a client may ask for that holds the text the handler looks for
MarkerHostID == "no system data found for host_id"

\* strings.Contains(err.Error(), "no system data found for host_id"),
\* dashboard_handler.go line 53, on the texts of the model
MentionsNoSystemData(text) ==
    \E i \in 1..Len(text) :
       text[i] \in {"no system data found for host_id: ", MarkerHostID}

\* the host ids the details are asked for: two that post, one that never
\* did, and the one above
RequestedHostIDs == {"h1", "h2", "h3", MarkerHostID}

\* models.RootDiskDetails{Path: "/"}, lines 294 and 315
DefaultDisk == [Path |-> "/", TotalGB |-> 0, UsedGB |-> 0, FreeGB |-> 0, UsagePercent |-> 0]

NoDetails == [ID |-> ""]

\* a mutation of RootDisks: the default record has no path
RootDisksNoPath(points, hostID, at, fault) ==
    LET rows == LastPerSeries(
                   {p \in Matching(points, "disk_metrics", at, defaultLookbackWindow) :
                       p.tags.host_id = hostID /\ p.tags.path = "/"})
    IN  IF fault # "none" \/ rows = {} THEN {[DefaultDisk EXCEPT !.Path = ""]}
        ELSE {[Path |-> d.tags.path, TotalGB |-> d.fields.total_gb,
               UsedGB |-> d.fields.used_gb, FreeGB |-> d.fields.free_gb,
               UsagePercent |-> d.fields.usage_percent] : d \in rows}

\* the root disk details, lines 276-321: the first record of the disk query,
\* the default when the query fails or has no record
RootDisks(points, hostID, at, fault) ==
    LET rows == LastPerSeries(
                   {p \in Matching(points, "disk_metrics", at, defaultLookbackWindow) :
                       p.tags.host_id = hostID /\ p.tags.path = "/"})
    IN  IF fault # "none" \/ rows = {} THEN {DefaultDisk}
        ELSE {[Path |-> d.tags.path, TotalGB |-> d.fields.total_gb,
               UsedGB |-> d.fields.used_gb, FreeGB |-> d.fields.free_gb,
               UsagePercent |-> d.fields.usage_percent] : d \in rows}

\* InfluxDBReader.GetHostDetails, lines 166-454: the returns it can make at
\* clock reading at.  faults: how each of its four queries fails.  The
\* system query (lines 169-217) gives one table per series of the host, and
\* the record read is the first one of the stream.
GetHostDetails(points, hostID, at, faults) ==
    LET rows == LastPerSeries(
                   {p \in Matching(points, "system_metrics", at, defaultLookbackWindow) :
                       p.tags.host_id = hostID})
    IN  IF faults.sys = "query"
        THEN {[err |-> ErrQuerySystem, details |-> NoDetails]}
        ELSE IF faults.sys = "stream"
        THEN {[err |-> ErrSystemStream(hostID), details |-> NoDetails]}
        ELSE IF rows = {}
        THEN {[err |-> ErrNoSystemData(hostID), details |-> NoDetails]}
        ELSE {[err |-> <<>>,
               details |->
                  [ID |-> hostID, Hostname |-> record.tags.hostname,
                   LastSeen |-> record.time,
                   Memory |-> [TotalGB |-> record.fields.mem_total_gb,
                               AvailableGB |-> record.fields.mem_available_gb,
                               UsagePercent |-> record.fields.mem_used_gb],
                   Disk |-> disk,
                   Processes |-> procs,
                   CPUUsage |-> record.fields.cpu_usage_percent,
                   RAMUsage |-> record.fields.mem_usage_percent,
                   NetworkUpload |-> record.fields.net_upload_bytes_sec,
                   NetworkDownload |-> record.fields.net_download_bytes_sec,
                   Status |-> DetailsStatus(at - record.time,
                                            record.fields.cpu_usage_percent,
                                            record.fields.mem_usage_percent,
                                            disk.UsagePercent)]] :
                 record \in rows,
                 disk \in RootDisks(points, hostID, at, faults.disk),
                 procs \in UNION {JoinProcesses(memRecs, cpuRecs) :
                    memRecs \in LegSeen(ProcessLeg(points, hostID, at, "mem_percent"),
                                        faults.mem),
                    cpuRecs \in LegSeen(ProcessLeg(points, hostID, at, "cpu_percent"),
                                        faults.cpu)}}

DetailsFaults == [sys : QueryFaults, disk : QueryFaults, mem : QueryFaults, cpu : QueryFaults]

NoFaults == [sys |-> "none", disk |-> "none", mem |-> "none", cpu |-> "none"]

NoDetailsCall ==
    [called |-> FALSE, hostID |-> "", at |-> 0, faults |-> NoFaults,
     code |-> 0, err |-> <<>>, body |-> NoDetails]

\* DashboardHandler.GetHostDetailsByID, lines 42-63, on one request
GetHostDetailsByID ==
    /\ ~detailsCall.called
    /\ \E hostID \in RequestedHostIDs, at \in ReaderTimes, faults \in DetailsFaults :
          \E ret \in GetHostDetails(store, hostID, at, faults) :
             detailsCall' =
                 [called |-> TRUE, hostID |-> hostID, at |-> at, faults |-> faults,
                  code |-> IF hostID = "" THEN 400
                           ELSE IF ret.err = <<>> THEN 200
                           ELSE IF MentionsNoSystemData(ret.err) THEN 404
                           ELSE 500,
                  err |-> ret.err,
                  body |-> ret.details]
    /\ UNCHANGED <<overviewCall, joinCall, historyCall>>
    /\ UNCHANGED <<rateVars, agentVars, ingestVars, statusVars, probeVars, serveVars>>

\* the processes of the snapshots the details are read from: pid 50 and
\* pid 49 make the tags "2" and "1", pid 1 makes a tag that is no number
DetailProcesses ==
    <<[PID |-> 50, Name |-> "b", CPUPercent |-> 20, MemoryPercent |-> 5, Username |-> "u"],
      [PID |-> 49, Name |-> "a", CPUPercent |-> 30, MemoryPercent |-> 7, Username |-> "u"],
      [PID |-> 1, Name |-> "_c", CPUPercent |-> 5, MemoryPercent |-> 20, Username |-> "u"]>>

\* the Stores the details are read from: one snapshot of host h1, some of
\* whose disk and process writes the Store may have failed, beside nothing
\* or a snapshot of host h2
DetailsStores ==
    LET h1 == [HostID |-> "h1", Hostname |-> "web"]
        h2 == [HostID |-> "h2", Hostname |-> "db"]
        other == StoreAfter({}, HostSnapshot(MaxTimestamp, h2, 90, 60,
                                             SubSeq(DetailProcesses, 1, 1), <<RootFull>>))
    IN  {ApplyWrites(base,
                     WriteStats(HostSnapshot(ts, h1, cpu, 60,
                                             SubSeq(DetailProcesses, 1, n), disks),
                                rejected).writes) :
            base \in {{}, other}, ts \in 1..MaxTimestamp, cpu \in CPUUsages,
            n \in 0..Len(DetailProcesses), disks \in {<<>>, <<RootOK>>},
            rejected \in {{}, {2}}}

\* the records a leg can deliver: the tags of pids 49, 50 and 1
LegKeys ==
    {<<PidTag(49), "a">>, <<PidTag(50), "a">>, <<PidTag(1), "a">>, <<PidTag(49), "_c">>}

LegRecords(values) ==
    {[pid |-> key[1], name |-> key[2], value |-> v] : key \in LegKeys, v \in values}

\* the longest stream of a leg
MaxLegRecords == 2

\* the streams of a leg: at most one record per (pid, name)
LegStreams(values) ==
    {s \in SeqsUpTo(LegRecords(values), MaxLegRecords) :
        \A i, j \in 1..Len(s) :
           i # j => <<s[i].pid, s[i].name>> # <<s[j].pid, s[j].name>>}

NoJoinCall == [memRecs |-> <<>>, cpuRecs |-> <<>>, joined |-> FALSE, list |-> <<>>]

\* lines 325-441 on the records of the two legs
JoinLegs ==
    /\ ~joinCall.joined
    /\ \E list \in JoinProcesses(joinCall.memRecs, joinCall.cpuRecs) :
          joinCall' = [joinCall EXCEPT !.joined = TRUE, !.list = list]
    /\ UNCHANGED <<overviewCall, detailsCall, historyCall>>
    /\ UNCHANGED <<rateVars, agentVars, ingestVars, statusVars, probeVars, serveVars>>

-----------------------------------------------------------------------------
(* Query engine, history: InfluxDBReader.GetHostMetricHistory and           *)
(* DashboardHandler.GetHostMetricHistory                                    *)

\* allowedMetrics, dashboard_handler.go lines 93-96
allowedMetrics ==
    {"cpu_usage_percent", "mem_usage_percent",
     "net_upload_bytes_sec", "net_download_bytes_sec"}

\* validNumericFields, part_005 lines 459-465
validNumericFields ==
    {"cpu_usage_percent", "mem_usage_percent",
     "net_upload_bytes_sec", "net_download_bytes_sec"}

\* the metric names a client asks for: the four of the list, two other
\* fields of the measurement, a name that is no field, and no name
MetricNames ==
    allowedMetrics \cup {"net_bytes_sent_period", "mem_used_gb", "disk_usage_percent", ""}

\* the latest collected_at of the samples the history is read from
MaxSampleTime == 4

SampleTimes == 1..MaxSampleTime

\* the range and aggregate parameters, in seconds
Ranges == {MaxSampleTime - 1, MaxSampleTime + 2}
Intervals == {2, 3}

\* the clock readings of the reader
HistoryTimes == {MaxSampleTime + 1, MaxSampleTime + 2}

\* a field of a point as a fraction; the rates are fractions already
FieldValue(p, field) ==
    IF field \in {"net_upload_bytes_sec", "net_download_bytes_sec"}
    THEN p.fields[field]
    ELSE Ratio(p.fields[field], 1)

AddRatio(a, b) == Ratio(a.num * b.den + b.num * a.den, a.den * b.den)

RECURSIVE SumOf(_, _)
\* the sum of a field over a set of points
SumOf(ps, field) ==
    IF ps = {} THEN ZeroRate
    ELSE LET p == CHOOSE q \in ps : TRUE
         IN  AddRatio(FieldValue(p, field), SumOf(ps \ {p}, field))

\* fn: mean
Mean(ps, field) ==
    LET s == SumOf(ps, field)
    IN  Ratio(s.num, s.den * Cardinality(ps))

Min(a, b) == IF a < b THEN a ELSE b

\* aggregateWindow(every: every, fn: mean, createEmpty: false) on one table,
\* line 474: the windows are the multiples of every, cut at the bounds of
\* the range; a window that holds records yields one record, at the
\* window's stop, with the mean of its values; the records are in the order
\* of their time
aggregateWindow(ps, field, start, stop, every) ==
    LET In(k) == {p \in ps : k * every <= p.time /\ p.time < (k + 1) * every}
        windows == {k \in (start \div every)..((stop - 1) \div every) : In(k) # {}}
        n == Cardinality(windows)
        Nth(i) == CHOOSE k \in windows : Cardinality({j \in windows : j < k}) = i - 1
    IN  [i \in 1..n |->
            [time |-> Min((Nth(i) + 1) * every, stop),
             value |-> Mean(In(Nth(i)), field)]]

RECURSIVE Concat(_)
\* the tables of a stream, one after the other
Concat(tables) ==
    IF tables = <<>> THEN <<>> ELSE Head(tables) \o Concat(Tail(tables))

\* the query of lines 470-476: the possible result streams.  from() gives
\* one table per series of the host, aggregateWindow works on each table,
\* and the stream holds the tables one after the other.
HistoryRecords(points, hostID, field, at, rangeStart, every) ==
    LET ps == {p \in Matching(points, "system_metrics", at, rangeStart) :
                  p.tags.host_id = hostID}
        series == {p.tags : p \in ps}
        Table(tags) == aggregateWindow({p \in ps : p.tags = tags}, field,
                                       at - rangeStart, at, every)
    IN  {Concat([i \in 1..Len(order) |-> Table(order[i])]) : order \in Streams(series)}

\* record.Time().In(time.Local).Format("15:04"), line 503: the hour and the
\* minute of the time, kept as the minute of the day (the local time is UTC)
FormatHHMM(t) == (t \div 60) % (24 * 60)

\* InfluxDBReader.GetHostMetricHistory, lines 457-517: the returns it can
\* make at clock reading at.  queried: a query was sent to the Store;
\* records: the stream the Store answered with.
ReadHostMetricHistory(points, hostID, metricField, rangeStart, every, at, fault) ==
    IF metricField \notin validNumericFields
    THEN {[err |-> TRUE, queried |-> FALSE, records |-> <<>>, points |-> <<>>]}
    ELSE IF fault = "query"
    THEN {[err |-> TRUE, queried |-> TRUE, records |-> <<>>, points |-> <<>>]}
    ELSE {[err |-> fault = "stream", queried |-> TRUE, records |-> recs,
           points |-> IF fault = "stream" THEN <<>>
                      ELSE [i \in 1..Len(recs) |->
                              [Timestamp |-> FormatHHMM(recs[i].time),
                               Value |-> recs[i].value]]] :
            recs \in HistoryRecords(points, hostID, metricField, at, rangeStart, every)}

NoHistoryCall ==
    [called |-> FALSE, hostID |-> "", metricName |-> "", rangeOk |-> FALSE,
     aggregateOk |-> FALSE, range |-> 0, every |-> 0, at |-> 0, fault |-> "none",
     code |-> 0, queried |-> FALSE, records |-> <<>>, body |-> <<>>]

\* a mutation of GetHostMetricHistory: the handler leaves the check of the
\* metric name to the reader
GetHostMetricHistoryUnchecked ==
    /\ ~historyCall.called
    /\ \E hostID \in {"h1", "h2"}, metricName \in MetricNames,
          rangeOk \in BOOLEAN, aggregateOk \in BOOLEAN,
          rangeStart \in Ranges, every \in Intervals,
          at \in HistoryTimes, fault \in QueryFaults :
          LET call == [NoHistoryCall EXCEPT
                          !.called = TRUE, !.hostID = hostID,
                          !.metricName = metricName, !.rangeOk = rangeOk,
                          !.aggregateOk = aggregateOk, !.range = rangeStart,
                          !.every = every, !.at = at, !.fault = fault]
          IN  IF metricName = "" \/ ~rangeOk \/ ~aggregateOk
              THEN historyCall' = [call EXCEPT !.code = 400]
              ELSE \E ret \in ReadHostMetricHistory(store, hostID, metricName,
                                                    rangeStart, every, at, fault) :
                      historyCall' =
                          [call EXCEPT !.code = IF ret.err THEN 500 ELSE 200,
                                       !.queried = ret.queried,
                                       !.records = ret.records,
                                       !.body = ret.points]
    /\ UNCHANGED <<overviewCall, detailsCall, joinCall>>
    /\ UNCHANGED <<rateVars, agentVars, ingestVars, statusVars, probeVars, serveVars>>

\* DashboardHandler.GetHostMetricHistory, lines 66-112, on one request.
\* rangeOk and aggregateOk: time.ParseDuration takes the parameter.
GetHostMetricHistory ==
    /\ ~historyCall.called
    /\ \E hostID \in {"h1", "h2"}, metricName \in MetricNames,
          rangeOk \in BOOLEAN, aggregateOk \in BOOLEAN,
          rangeStart \in Ranges, every \in Intervals,
          at \in HistoryTimes, fault \in QueryFaults :
          LET call == [NoHistoryCall EXCEPT
                          !.called = TRUE, !.hostID = hostID,
                          !.metricName = metricName, !.rangeOk = rangeOk,
                          !.aggregateOk = aggregateOk, !.range = rangeStart,
                          !.every = every, !.at = at, !.fault = fault]
          IN  IF metricName = "" \/ ~rangeOk \/ ~aggregateOk
                 \/ metricName \notin allowedMetrics
              THEN historyCall' = [call EXCEPT !.code = 400]
              ELSE \E ret \in ReadHostMetricHistory(store, hostID, metricName,
                                                    rangeStart, every, at, fault) :
                      historyCall' =
                          [call EXCEPT !.code = IF ret.err THEN 500 ELSE 200,
                                       !.queried = ret.queried,
                                       !.records = ret.records,
                                       !.body = ret.points]
    /\ UNCHANGED <<overviewCall, detailsCall, joinCall>>
    /\ UNCHANGED <<rateVars, agentVars, ingestVars, statusVars, probeVars, serveVars>>

RECURSIVE StoreAfterAll(_, _)
\* the Store after the accepted payloads of a set
StoreAfterAll(points, payloads) ==
    IF payloads = {} THEN points
    ELSE LET payload == CHOOSE q \in payloads : TRUE
         IN  StoreAfterAll(StoreAfter(points, payload), payloads \ {payload})

\* the Stores the history is read from: host h1 has posted none, one or
\* other of two cpu usages at each sample time, perhaps once under another
\* hostname; host h2 may have posted once
HistoryStores ==
    LET h1 == [HostID |-> "h1", Hostname |-> "web"]
        renamed == [HostID |-> "h1", Hostname |-> "db"]
        h2 == [HostID |-> "h2", Hostname |-> "db"]
    IN  {StoreAfterAll({},
            {HostSnapshot(t, h1, usage[t], 60, <<>>, <<>>) :
                t \in {u \in SampleTimes : usage[u] # 0}}
            \cup {HostSnapshot(2, renamed, 40, 60, <<>>, <<>>) : x \in {1} \cap old}
            \cup {HostSnapshot(2, h2, 90, 60, <<>>, <<>>) : x \in {2} \cap old}) :
         usage \in [SampleTimes -> {0} \cup CPUUsages], old \in SUBSET {1, 2}}

-----------------------------------------------------------------------------
(* Sampler: collectAndSendStats over the outcomes of the OS probes          *)

\* the families of probes collectAndSendStats calls, lines 137-182
Families == {"system", "cpu", "memory", "network", "processes", "disk"}

\* the outcomes of the probes of one tick.  GetCPUInfo has two kinds of
\* failure: cpu.Info fails (stats.go lines 136-144) or cpu.Percent fails
\* (lines 147-157)
ProbeOutcomes ==
    [system : {"ok", "err"}, cpu : {"ok", "info", "percent"}, memory : {"ok", "err"},
     network : {"ok", "err"}, processes : {"ok", "err"}, disk : {"ok", "err"}]

\* the families that fail under an outcome
Failed(probes) == {f \in Families : probes[f] # "ok"}

\* the zero values of the fields of AllHostStats
ZeroSystem == [Hostname |-> "", HostID |-> ""]
ZeroCPU == [ModelName |-> "", Usage |-> 0]
ZeroMemory == [TotalGB |-> 0, FreeGB |-> 0, UsagePercent |-> 0]

\* GetSystemInfo, stats.go lines 107-128
GetSystemInfo(outcome) ==
    IF outcome = "ok" THEN [Hostname |-> "web", HostID |-> "h1"] ELSE ZeroSystem

\* GetCPUInfo, stats.go lines 132-159: the data it returns with its error
\* holds the model name when cpu.Percent is what failed
GetCPUInfo(outcome) ==
    CASE outcome = "ok"      -> [ModelName |-> "model", Usage |-> 40]
      [] outcome = "percent" -> [ModelName |-> "model", Usage |-> 0]
      [] OTHER               -> ZeroCPU

\* GetMemInfo, stats.go lines 187-206
GetMemInfo(outcome) ==
    IF outcome = "ok" THEN [TotalGB |-> 16, FreeGB |-> 6, UsagePercent |-> 60]
    ELSE ZeroMemory

\* the list GetProcessList returns with its error, stats.go lines 267-270:
\* nil when process.Pids fails
ProbedProcesses(outcome) ==
    IF outcome = "ok" THEN <<[PID |-> 49, Name |-> "a"]>> ELSE <<>>

\* GetDiskUsageInfo, stats.go lines 305-329: the list of the root path's
\* usage; panics: disk.Usage failed, its *UsageStat is nil and line 319
\* reads usage.Path
GetDiskUsageInfo(outcome) ==
    IF outcome = "ok"
    THEN [panics |-> FALSE, usages |-> <<[Path |-> "/", UsagePercent |-> 50]>>]
    ELSE [panics |-> TRUE, usages |-> <<>>]

\* the counters the tick reads and the pair it finds stored
TickSample == [BytesSent |-> 1, BytesRecv |-> 1, PacketsSent |-> 1, PacketsRecv |-> 1]

NoTickCall ==
    [called |-> FALSE, probes |-> [f \in Families |-> "ok"], panicked |-> FALSE,
     sends |-> 0, System |-> ZeroSystem, CPU |-> ZeroCPU, Memory |-> ZeroMemory,
     Network |-> NetworkData(""), Processes |-> <<>>, Disks |-> <<>>]

\* collectAndSendStats, main.go lines 130-197, on the outcomes of its
\* probes: the fields of hostStats and the calls of SendStatsJSON (line 188);
\* a panic of GetDiskUsageInfo ends it before the send
CollectTick ==
    /\ ~tickCall.called
    /\ LET probes == tickCall.probes
           r == CalculateNetworkRates(TickSample, ZeroCounters, 1)
           disks == GetDiskUsageInfo(probes.disk)
       IN  tickCall' =
              [tickCall EXCEPT
                 !.called = TRUE,
                 !.panicked = disks.panics,
                 !.sends = IF disks.panics THEN 0 ELSE 1,
                 !.System = GetSystemInfo(probes.system),
                 !.CPU = GetCPUInfo(probes.cpu),
                 !.Memory = GetMemInfo(probes.memory),
                 !.Network = TickNetwork(probes.network # "ok", TRUE, r),
                 !.Processes = ProbedProcesses(probes.processes),
                 !.Disks = disks.usages]
    /\ UNCHANGED <<rateVars, agentVars, ingestVars, statusVars, queryVars, serveVars>>

-----------------------------------------------------------------------------
(* Ingestion under concurrency: gin serves each request in a goroutine of   *)
(* its own; PostStats and WriteStats keep a request's state in locals       *)

\* no PostStats request is being served
NoHandlers == <<>>

\* the requests in flight
HandlerIDs == {"r1", "r2"}

\* a goroutine of the server before its request is read
IdleHandler ==
    [pc |-> "idle", body |-> NoRequest.body, rejected |-> {}, next |-> 0,
     written |-> <<>>, code |-> 0]

\* the bodies the concurrent clients post: two snapshots of one host and
\* time that differ in their values (the later write replaces the earlier
\* point), one of them with a disk and a process, and a body for each of
\* the three checks to fail
ServeBodies ==
    {[parses |-> TRUE,
      payload |-> ClientPayload(1, "h1", 40,
                                <<[PID |-> 1, Name |-> "a", CPUPercent |-> 20,
                                   MemoryPercent |-> 5, Username |-> "u"]>>,
                                <<RootOK>>)],
     [parses |-> TRUE,
      payload |-> ClientPayload(1, "h1", 90,
                                <<[PID |-> 1, Name |-> "a", CPUPercent |-> 30,
                                   MemoryPercent |-> 7, Username |-> "u"]>>,
                                <<>>)],
     [parses |-> FALSE, payload |-> ClientPayload(1, "h1", 40, <<>>, <<RootOK>>)],
     [parses |-> TRUE, payload |-> ClientPayload(1, "", 40, <<>>, <<RootOK>>)],
     [parses |-> TRUE, payload |-> ClientPayload(0, "h1", 40, <<>>, <<RootOK>>)]}

\* the writes of a request the Store fails: none, the system point, the
\* second point
ServeRejected == {{}, {1}, {2}}

\* the k-th WritePoint call of WriteStats for a payload, lines 614, 636, 658
NthPoint(payload, k) ==
    LET d == Len(payload.Disks)
    IN  IF k = 1 THEN SystemPoint(payload)
        ELSE IF k <= 1 + d THEN DiskPoint(payload, payload.Disks[k - 1])
        ELSE ProcessPoint(payload, payload.Processes[k - 1 - d])

\* a mutation of BindPayload: the system point of the payload is written
\* before the checks
BindPayloadWriting ==
    /\ handlers # NoHandlers
    /\ \E id \in HandlerIDs, body \in ServeBodies, rejected \in ServeRejected :
          /\ handlers[id].pc = "idle"
          /\ store' = WritePoint(store, SystemPoint(body.payload))
          /\ handlers' =
                [handlers EXCEPT ![id] =
                    IF Validate(body) # ""
                    THEN [@ EXCEPT !.pc = "done", !.body = body, !.code = 400]
                    ELSE [@ EXCEPT !.pc = "writing", !.body = body,
                                   !.rejected = rejected, !.next = 1]]
    /\ UNCHANGED <<request, writes, response>>
    /\ UNCHANGED <<rateVars, agentVars, statusVars, queryVars, probeVars>>

\* PostStats lines 26-44 in the goroutine of request id: the body is bound
\* to the local payload and checked
BindPayload ==
    /\ handlers # NoHandlers
    /\ \E id \in HandlerIDs, body \in ServeBodies, rejected \in ServeRejected :
          /\ handlers[id].pc = "idle"
          /\ handlers' =
                [handlers EXCEPT ![id] =
                    IF Validate(body) # ""
                    THEN [@ EXCEPT !.pc = "done", !.body = body, !.code = 400]
                    ELSE [@ EXCEPT !.pc = "writing", !.body = body,
                                   !.rejected = rejected, !.next = 1]]
    /\ UNCHANGED <<rateVars, agentVars, ingestVars, statusVars, queryVars, probeVars>>

\* a mutation of WritePointStep: the payload is kept in a variable the
\* requests share, so a point is built from the payload bound last
WritePointStepShared ==
    /\ handlers # NoHandlers
    /\ \E id \in HandlerIDs :
          LET h == handlers[id]
              others == {o \in HandlerIDs \ {id} : handlers[o].pc = "writing"}
              payload == IF others = {} THEN h.body.payload
                         ELSE handlers[CHOOSE o \in others : TRUE].body.payload
              last == 1 + Len(h.body.payload.Disks) + Len(h.body.payload.Processes)
              k == IF h.next <= 1 + Len(payload.Disks) + Len(payload.Processes)
                   THEN h.next ELSE 1
              ok == h.next \notin h.rejected
              point == NthPoint(payload, k)
          IN  /\ h.pc = "writing"
              /\ store' = IF ok THEN WritePoint(store, point) ELSE store
              /\ handlers' =
                    [handlers EXCEPT ![id] =
                        [@ EXCEPT
                           !.written = Append(@, [point |-> point, ok |-> ok]),
                           !.next = h.next + 1,
                           !.pc = IF (h.next = 1 /\ ~ok) \/ h.next = last
                                  THEN "done" ELSE "writing",
                           !.code = IF h.next = 1 /\ ~ok THEN 500
                                    ELSE IF h.next = last THEN 200 ELSE 0]]
    /\ UNCHANGED <<request, writes, response>>
    /\ UNCHANGED <<rateVars, agentVars, statusVars, queryVars, probeVars>>

\* the next WritePoint call of WriteStats in the goroutine of a request
\* (lines 616, 637, 659), and what follows it up to the next call or the
\* response: a failed write of the system point ends the request with 500
\* (lines 617-619, stats_handler.go 51-55), the last write ends it with 200
WritePointStep ==
    /\ handlers # NoHandlers
    /\ \E id \in HandlerIDs :
          LET h == handlers[id]
              payload == h.body.payload
              last == 1 + Len(payload.Disks) + Len(payload.Processes)
              ok == h.next \notin h.rejected
              point == NthPoint(payload, h.next)
          IN  /\ h.pc = "writing"
              /\ store' = IF ok THEN WritePoint(store, point) ELSE store
              /\ handlers' =
                    [handlers EXCEPT ![id] =
                        [@ EXCEPT
                           !.written = Append(@, [point |-> point, ok |-> ok]),
                           !.next = h.next + 1,
                           !.pc = IF (h.next = 1 /\ ~ok) \/ h.next = last
                                  THEN "done" ELSE "writing",
                           !.code = IF h.next = 1 /\ ~ok THEN 500
                                    ELSE IF h.next = last THEN 200 ELSE 0]]
    /\ UNCHANGED <<request, writes, response>>
    /\ UNCHANGED <<rateVars, agentVars, statusVars, queryVars, probeVars>>

-----------------------------------------------------------------------------
(* the components a specification leaves out stay in these states *)

RateIdle == rateCall = NoRateCall

AgentIdle ==
    /\ agentPc = "off"
    /\ now = 0
    /\ previousNetCounters = ZeroCounters
    /\ previousNetCollectionTime = 0
    /\ networkStatsInitialized = FALSE
    /\ tickPending = FALSE
    /\ ctxCancelled = FALSE
    /\ lastTick = NoTick
    /\ ticks = NoTicks

IngestIdle ==
    /\ store = {}
    /\ request = NoRequest
    /\ writes = <<>>
    /\ response = NoResponse

StatusIdle == statusCall = NoStatusCall

QueryIdle ==
    /\ overviewCall = NoOverviewCall
    /\ detailsCall = NoDetailsCall
    /\ joinCall = NoJoinCall
    /\ historyCall = NoHistoryCall

ProbeIdle == tickCall = NoTickCall

ServeIdle == handlers = NoHandlers

-----------------------------------------------------------------------------
(* Specification of the rate engine as a function of its arguments *)

InitRate ==
    /\ rateCall \in [current : IOCountersStat, previous : IOCountersStat,
                     duration : Durations, ret : {NoReturn}]
    /\ AgentIdle
    /\ IngestIdle
    /\ StatusIdle
    /\ QueryIdle
    /\ ProbeIdle
    /\ ServeIdle

NextRate == RateEngineCall

SpecRate == InitRate /\ [][NextRate]_vars

-----------------------------------------------------------------------------
(* Specification of the agent: the dispatch loop and its environment *)

InitAgent ==
    /\ agentPc = "start"
    /\ now = 0
    /\ previousNetCounters = ZeroCounters
    /\ previousNetCollectionTime = 0
    /\ networkStatsInitialized = FALSE
    /\ tickPending = FALSE
    /\ ctxCancelled = FALSE
    /\ lastTick = NoTick
    /\ ticks = NoTicks
    /\ RateIdle
    /\ IngestIdle
    /\ StatusIdle
    /\ QueryIdle
    /\ ProbeIdle
    /\ ServeIdle

NextAgent ==
    \/ MainBaseline
    \/ InitialCollect
    \/ LoopTick
    \/ SendReturns
    \/ LoopDone
    \/ TimerFire
    \/ Signal
    \/ ClockAdvance

SpecAgent == InitAgent /\ [][NextAgent]_vars

InitTick ==
    /\ tickCall \in {[NoTickCall EXCEPT !.probes = probes] : probes \in ProbeOutcomes}
    /\ RateIdle
    /\ AgentIdle
    /\ IngestIdle
    /\ StatusIdle
    /\ QueryIdle
    /\ ServeIdle

NextTick == CollectTick

SpecTick == InitTick /\ [][NextTick]_vars

InitServe ==
    /\ handlers = [id \in HandlerIDs |-> IdleHandler]
    /\ RateIdle
    /\ AgentIdle
    /\ IngestIdle
    /\ StatusIdle
    /\ QueryIdle
    /\ ProbeIdle

NextServe ==
    \/ BindPayload
    \/ WritePointStep
    \/ GetHostsOverview

SpecServe == InitServe /\ [][NextServe]_vars

\* the scheduling of the agent: main's goroutine keeps running, so the
\* initial collection is called; SendStatsJSON returns, at the latest when
\* its request context times out (part_007 line 175); and a select that
\* finds Done closed at every visit takes it at some visit (the select
\* chooses among its ready cases at random)
SpecAgentLive ==
    /\ SpecAgent
    /\ WF_vars(InitialCollect)
    /\ WF_vars(SendReturns)
    /\ WF_vars(LoopDone)

-----------------------------------------------------------------------------
(* Specification of the ingestion of one request *)

InitIngest ==
    /\ IngestIdle
    /\ RateIdle
    /\ AgentIdle
    /\ StatusIdle
    /\ QueryIdle
    /\ ProbeIdle
    /\ ServeIdle

NextIngest == PostStats

SpecIngest == InitIngest /\ [][NextIngest]_vars

-----------------------------------------------------------------------------
(* Specification of the status derivation as a function of its arguments *)

InitStatus ==
    /\ statusCall \in [age : Ages, cpu : Percents, ram : Percents, disk : Percents,
                       overview : {""}, details : {""}]
    /\ RateIdle
    /\ AgentIdle
    /\ IngestIdle
    /\ QueryIdle
    /\ ProbeIdle
    /\ ServeIdle

NextStatus ==
    \/ OverviewDerivesStatus
    \/ DetailsDerivesStatus

SpecStatus == InitStatus /\ [][NextStatus]_vars

-----------------------------------------------------------------------------
(* Specification of the overview: one POST into a Store that may hold an   *)
(* earlier snapshot, and the GETs of the overview                           *)

InitOverview ==
    /\ store \in EarlierStores
    /\ request = NoRequest
    /\ writes = <<>>
    /\ response = NoResponse
    /\ QueryIdle
    /\ RateIdle
    /\ AgentIdle
    /\ StatusIdle
    /\ ProbeIdle
    /\ ServeIdle

NextOverview ==
    \/ PostSnapshot
    \/ GetHostsOverview

SpecOverview == InitOverview /\ [][NextOverview]_vars

-----------------------------------------------------------------------------
(* Specification of the details: GETs of the details from a Store that     *)
(* holds the snapshots of one or two hosts                                  *)

InitDetails ==
    /\ store \in DetailsStores
    /\ request = NoRequest
    /\ writes = <<>>
    /\ response = NoResponse
    /\ QueryIdle
    /\ RateIdle
    /\ AgentIdle
    /\ StatusIdle
    /\ ProbeIdle
    /\ ServeIdle

NextDetails == GetHostDetailsByID

SpecDetails == InitDetails /\ [][NextDetails]_vars

-----------------------------------------------------------------------------
(* Specification of the two windows: one GET of the overview and one GET    *)
(* of the details from the same Store                                       *)

\* the Stores the two queries read: a snapshot of one of the hosts, beside
\* nothing or an earlier snapshot of host h1
WindowStores ==
    LET h1 == [HostID |-> "h1", Hostname |-> "web"]
        earlier == StoreAfter({}, HostSnapshot(0, h1, 40, 60, <<>>, <<RootOK>>))
    IN  {StoreAfter(base, HostSnapshot(ts, host, cpu, 60, <<>>, <<RootOK>>)) :
            base \in {{}, earlier}, host \in QueryHosts, ts \in 1..MaxTimestamp,
            cpu \in CPUUsages}

InitWindows ==
    /\ store \in WindowStores
    /\ request = NoRequest
    /\ writes = <<>>
    /\ response = NoResponse
    /\ QueryIdle
    /\ RateIdle
    /\ AgentIdle
    /\ StatusIdle
    /\ ProbeIdle
    /\ ServeIdle

NextWindows ==
    \/ GetHostsOverview
    \/ GetHostDetailsByID

SpecWindows == InitWindows /\ [][NextWindows]_vars

-----------------------------------------------------------------------------
(* Specification of the process join as a function of the two legs *)

InitJoin ==
    /\ joinCall \in [memRecs : LegStreams({5, 7}), cpuRecs : LegStreams({20}),
                     joined : {FALSE}, list : {<<>>}]
    /\ overviewCall = NoOverviewCall
    /\ detailsCall = NoDetailsCall
    /\ historyCall = NoHistoryCall
    /\ RateIdle
    /\ AgentIdle
    /\ IngestIdle
    /\ StatusIdle
    /\ ProbeIdle
    /\ ServeIdle

NextJoin == JoinLegs

SpecJoin == InitJoin /\ [][NextJoin]_vars

-----------------------------------------------------------------------------
(* Specification of the history: GETs of a metric's history from a Store   *)
(* that holds the samples of a host                                         *)

InitHistory ==
    /\ store \in HistoryStores
    /\ request = NoRequest
    /\ writes = <<>>
    /\ response = NoResponse
    /\ QueryIdle
    /\ RateIdle
    /\ AgentIdle
    /\ StatusIdle
    /\ ProbeIdle
    /\ ServeIdle

NextHistory == GetHostMetricHistory

SpecHistory == InitHistory /\ [][NextHistory]_vars

-----------------------------------------------------------------------------
(* Claims about the rate engine *)

Counters == {"BytesSent", "BytesRecv", "PacketsSent", "PacketsRecv"}

\* the delta CalculateNetworkRates reports for counter c
PeriodOf(data, c) ==
    CASE c = "BytesSent"   -> data.BytesSentPeriod
      [] c = "BytesRecv"   -> data.BytesRecvPeriod
      [] c = "PacketsSent" -> data.PacketsSentPeriod
      [] c = "PacketsRecv" -> data.PacketsRecvPeriod

\* rate = delta / seconds, stated without the division
IsRate(rate, delta, seconds) ==
    /\ rate.den > 0
    /\ rate.num * seconds = rate.den * delta

RateReturned == rateCall.ret.returned

\* C1: after a counter reset (current < previous) and with elapsed > 0,
\* CalculateNetworkRates returns delta = current for that counter, and the
\* byte rates are current / elapsed seconds.
C1_ResetDeltaIsCurrent ==
    (RateReturned /\ rateCall.duration > 0) =>
        /\ ~rateCall.ret.err
        /\ \A c \in Counters :
              rateCall.current[c] < rateCall.previous[c] =>
                 PeriodOf(rateCall.ret.data, c) = rateCall.current[c]
        /\ rateCall.current.BytesSent < rateCall.previous.BytesSent =>
              IsRate(rateCall.ret.data.UploadBytesPerSec,
                     rateCall.current.BytesSent, rateCall.duration)
        /\ rateCall.current.BytesRecv < rateCall.previous.BytesRecv =>
              IsRate(rateCall.ret.data.DownloadBytesPerSec,
                     rateCall.current.BytesRecv, rateCall.duration)

\* C2: with elapsed > 0 and current >= previous on each counter,
\* CalculateNetworkRates returns delta = current - previous for all four
\* counters, and upload/download rate = byte delta / elapsed seconds.
C2_NormalDelta ==
    (/\ RateReturned
     /\ rateCall.duration > 0
     /\ \A c \in Counters : rateCall.current[c] >= rateCall.previous[c]) =>
        /\ ~rateCall.ret.err
        /\ \A c \in Counters :
              PeriodOf(rateCall.ret.data, c) =
                 rateCall.current[c] - rateCall.previous[c]
        /\ IsRate(rateCall.ret.data.UploadBytesPerSec,
                  rateCall.current.BytesSent - rateCall.previous.BytesSent,
                  rateCall.duration)
        /\ IsRate(rateCall.ret.data.DownloadBytesPerSec,
                  rateCall.current.BytesRecv - rateCall.previous.BytesRecv,
                  rateCall.duration)

\* a returned call with every counter advanced and a rate that is no integer
C2_Witness ==
    /\ RateReturned
    /\ rateCall.duration = 2
    /\ \A c \in Counters : rateCall.current[c] > rateCall.previous[c]
    /\ rateCall.ret.data.BytesSentPeriod = 1
    /\ rateCall.ret.data.UploadBytesPerSec = [num |-> 1, den |-> 2]
    /\ rateCall.ret.data.PacketsRecvPeriod = 2

-----------------------------------------------------------------------------
(* Claims about the dispatch loop *)

AllZero(network) ==
    /\ network.BytesSentPeriod = 0
    /\ network.BytesRecvPeriod = 0
    /\ network.PacketsSentPeriod = 0
    /\ network.PacketsRecvPeriod = 0
    /\ network.UploadBytesPerSec.num = 0
    /\ network.DownloadBytesPerSec.num = 0

\* C3: for every elapsed <= 0 and all counter values, CalculateNetworkRates
\* returns an error; the tick that made such a call sends a NetworkRate
\* whose deltas and rates are all zero.  (The first conjunct does not depend
\* on the state: it is evaluated once, in the initial state.)
C3_InvalidDuration ==
    /\ agentPc = "start" =>
          \A cur \in IOCountersStat, prev \in IOCountersStat, d \in (-MaxDuration)..0 :
             CalculateNetworkRates(cur, prev, d).err
    /\ (lastTick.ran /\ lastTick.rateCalled /\ lastTick.duration <= 0) =>
          /\ lastTick.rateErr
          /\ lastTick.sent
          /\ AllZero(lastTick.Network)

\* a tick whose two samples differ and were read at the same clock reading
C3_Witness ==
    /\ lastTick.ran
    /\ lastTick.rateCalled
    /\ lastTick.duration = 0
    /\ lastTick.current.BytesSent > lastTick.previous.BytesSent
    /\ lastTick.current.BytesRecv < lastTick.previous.BytesRecv
    /\ lastTick.sent

-----------------------------------------------------------------------------
(* Claims about ingestion *)

Payload == request.body.payload

\* the request passed the three checks and reached WriteStats
ValidRequest == request.received /\ Validate(request.body) = ""

\* the number of WritePoint calls made for a measurement
Written(measurement) ==
    Cardinality({i \in 1..Len(writes) : writes[i].point.measurement = measurement})

\* C4: validation runs in the order deserialization, host_id, collected_at:
\* a body that does not deserialize is MalformedPayload; one with an empty
\* host_id is MissingHostID, also when collected_at is zero; one with a
\* host_id and a zero collected_at is MissingTimestamp; each is a 400.
C4_ValidationOrder ==
    request.received =>
        /\ ~request.body.parses =>
              response = [code |-> 400, error |-> ErrMalformedPayload]
        /\ (request.body.parses /\ Payload.System.HostID = "") =>
              response = [code |-> 400, error |-> ErrMissingHostID]
        /\ (request.body.parses /\ Payload.System.HostID # ""
                /\ Payload.CollectedAt = 0) =>
              response = [code |-> 400, error |-> ErrMissingTimestamp]

\* a body that parses and lacks both the host id and the timestamp
C4_Witness ==
    /\ request.received
    /\ request.body.parses
    /\ Payload.System.HostID = ""
    /\ Payload.CollectedAt = 0
    /\ response = [code |-> 400, error |-> ErrMissingHostID]
    /\ writes = <<>>

\* C5: a valid payload's ingestion fails (500) exactly when the write of the
\* system_metrics point fails; failed disk and process writes are skipped,
\* every other disk and process point is still attempted, and the call
\* succeeds (200).
C5_FailsIffSystemWriteFails ==
    ValidRequest =>
        /\ response.code = 500 <=> 1 \in request.rejected
        /\ response.code # 500 => response.code = 200
        /\ 1 \notin request.rejected =>
              /\ Len(writes) = 1 + Len(Payload.Disks) + Len(Payload.Processes)
              /\ \A i \in 1..Len(writes) :
                    writes[i].ok <=> i \notin request.rejected
              /\ store = {writes[i].point : i \in {j \in 1..Len(writes) : writes[j].ok}}

\* the disk write fails, and both process points that follow are stored
C5_Witness ==
    /\ ValidRequest
    /\ Len(Payload.Disks) = 1
    /\ Len(Payload.Processes) = 2
    /\ request.rejected = {2}
    /\ response.code = 200
    /\ Cardinality(store) = 3
    /\ \A q \in store : q.measurement # "disk_metrics"

\* C6: for a valid payload with d disks and p processes and a Store that
\* accepts every write, WriteStats makes exactly 1 system_metrics write,
\* d disk_metrics writes and p process_metrics writes, the system write first.
C6_WriteCounts ==
    (ValidRequest /\ request.rejected = {}) =>
        /\ Written("system_metrics") = 1
        /\ Written("disk_metrics") = Len(Payload.Disks)
        /\ Written("process_metrics") = Len(Payload.Processes)
        /\ Len(writes) = 1 + Len(Payload.Disks) + Len(Payload.Processes)
        /\ writes[1].point.measurement = "system_metrics"
        /\ \A i \in 1..Len(writes) : writes[i].ok

C6_Witness ==
    /\ ValidRequest
    /\ request.rejected = {}
    /\ Len(Payload.Disks) = 1
    /\ Len(Payload.Processes) = 2
    /\ Len(writes) = 4
    /\ response.code = 200

Above(proc) ==
    proc.CPUPercent > maxProcessesUsagePercent
        \/ proc.MemoryPercent > maxProcessesUsagePercent

\* two processes, one above the limit and one below it
OneAboveOneBelow(procs) ==
    /\ Len(procs) = 2
    /\ \E i, j \in 1..2 : i # j /\ Above(procs[i]) /\ ~Above(procs[j])

\* one point per measurement, the process point of a process above the limit
OnePointEach ==
    /\ Written("system_metrics") = 1
    /\ Written("disk_metrics") = 1
    /\ Written("process_metrics") = 1
    /\ \A i \in 1..Len(writes) :
          writes[i].point.measurement = "process_metrics" =>
             \E proc \in ProcessEntries :
                /\ Above(proc)
                /\ writes[i].point.tags.pid = PidTag(proc.PID)
                /\ writes[i].point.tags.name = proc.Name

\* C7, as claimed: a valid snapshot with one disk and two processes, one
\* above the limit (10.0) and one below, is POSTed; ingestion creates exactly
\* 1 system point, 1 disk point and 1 process point, that of the process
\* above the limit.
C7_PostedProcessesFiltered ==
    (/\ ValidRequest
     /\ request.rejected = {}
     /\ Len(Payload.Disks) = 1
     /\ OneAboveOneBelow(Payload.Processes)) => OnePointEach

\* C7, amended: the limit is applied by the agent's sampler, not by
\* ingestion.  When the agent samples two processes, one above the limit and
\* one below, its snapshot holds only the one above, and its POST creates
\* 1 system point, 1 disk point and 1 process point (the one above);
\* ingestion writes one process point per process entry of any payload.
C7_SampledProcessesFiltered ==
    /\ (/\ ValidRequest
        /\ request.fromAgent
        /\ request.rejected = {}
        /\ Len(Payload.Disks) = 1
        /\ OneAboveOneBelow(request.osProcesses)) =>
            /\ Len(Payload.Processes) = 1
            /\ OnePointEach
    /\ (ValidRequest /\ request.rejected = {}) =>
            Written("process_metrics") = Len(Payload.Processes)

\* the agent sampled a process below the limit and one above it by its memory
C7_Witness ==
    /\ ValidRequest
    /\ request.fromAgent
    /\ request.rejected = {}
    /\ Len(Payload.Disks) = 1
    /\ OneAboveOneBelow(request.osProcesses)
    /\ ~Above(request.osProcesses[1])
    /\ request.osProcesses[2].MemoryPercent > maxProcessesUsagePercent
    /\ response.code = 200
    /\ Cardinality(store) = 3

\* C8: every point written for one payload (system, disk and process points)
\* carries the same timestamp, the payload's collected_at.
C8_SameTimestamp ==
    ValidRequest =>
        /\ \A i \in 1..Len(writes) : writes[i].point.time = Payload.CollectedAt
        /\ \A q \in store : q.time = Payload.CollectedAt

C8_Witness ==
    /\ ValidRequest
    /\ Payload.CollectedAt = 2
    /\ Written("disk_metrics") = 1
    /\ Written("process_metrics") = 2
    /\ Cardinality(store) = 4

-----------------------------------------------------------------------------
(* Claims about the status derivation *)

\* C9: the Overview status is a total, threshold-exact function of
\* (age, cpu, mem, disk): offline exactly when the age exceeds 35 s;
\* otherwise warning exactly when cpu > 85 or mem > 85 or disk > 90;
\* otherwise online.  Exactly one of the three is assigned.
C9_OverviewStatusExact ==
    statusCall.overview # "" =>
        LET stale == statusCall.age > 35
            high == statusCall.cpu > 85 \/ statusCall.ram > 85 \/ statusCall.disk > 90
        IN  /\ statusCall.overview \in {"online", "warning", "offline"}
            /\ statusCall.overview = "offline" <=> stale
            /\ statusCall.overview = "warning" <=> (~stale /\ high)
            /\ statusCall.overview = "online" <=> (~stale /\ ~high)

\* every input on its limit: not offline and not warning
C9_Witness ==
    /\ statusCall.age = 35
    /\ statusCall.cpu = 85
    /\ statusCall.ram = 85
    /\ statusCall.disk = 90
    /\ statusCall.overview = "online"

\* C10: Details derives its status by the same function as Overview: a host
\* that is not offline, with cpu <= 85 and mem <= 85 and a root disk usage
\* above 90, has status warning in Details.
C10_DetailsStatusAsOverview ==
    /\ (statusCall.overview # "" /\ statusCall.details # "") =>
          statusCall.details = statusCall.overview
    /\ (/\ statusCall.details # ""
        /\ statusCall.age <= 35
        /\ statusCall.cpu <= 85
        /\ statusCall.ram <= 85
        /\ statusCall.disk > 90) => statusCall.details = "warning"


-----------------------------------------------------------------------------
(* Claims about the overview *)

\* the host ids that post to the Store of the overview
PostingHostIDs == {host.HostID : host \in QueryHosts}

\* the hosts with a system_metrics record in the active window of a reading
ActiveHosts(at) ==
    {p.tags.host_id : p \in Matching(store, "system_metrics", at, activeHostLookback)}

\* the hosts with a root-path disk_metrics record in that window
HostsWithRootDisk(at) ==
    {p.tags.host_id :
        p \in {q \in Matching(store, "disk_metrics", at, activeHostLookback) :
                 q.tags.path = "/"}}

\* the places of a host's entries in the overview's body
EntriesOf(h) == {i \in 1..Len(overviewCall.body) : overviewCall.body[i].ID = h}

OverviewAnswered == overviewCall.called /\ overviewCall.code = 200

\* C11: the overview holds exactly one entry for each host_id with a
\* system_metrics record within the 30 s active window and none for any
\* other host; a host in the window without a root-path disk record has an
\* entry whose disk usage is 0.
C11_OneEntryPerActiveHost ==
    OverviewAnswered =>
        \A h \in PostingHostIDs :
           /\ Cardinality(EntriesOf(h)) =
                 IF h \in ActiveHosts(overviewCall.at) THEN 1 ELSE 0
           /\ (h \in ActiveHosts(overviewCall.at)
                  /\ h \notin HostsWithRootDisk(overviewCall.at)) =>
                 \A i \in EntriesOf(h) : overviewCall.body[i].DiskUsage = 0

\* the places of the root-path entries in the posted disk list
PostedRoot == {i \in 1..Len(Payload.Disks) : Payload.Disks[i].Path = "/"}

\* the usage of the last root-path entry of the posted disk list
PostedRootUsage ==
    Payload.Disks[CHOOSE i \in PostedRoot : \A j \in PostedRoot : j <= i].UsagePercent

\* a snapshot below the warning limits was posted and answered 200, and an
\* overview was answered at a reading whose active window holds the
\* snapshot's collected_at
PostedThenListed ==
    /\ request.received
    /\ response.code = 200
    /\ Payload.CPU.Usage < usageWarning
    /\ Payload.Memory.UsagePercent < usageWarning
    /\ PostedRoot # {}
    /\ \A i \in PostedRoot : Payload.Disks[i].UsagePercent < diskUsageWarning
    /\ OverviewAnswered
    /\ InRange(Payload.CollectedAt, overviewCall.at, activeHostLookback)

EntriesOfPosted ==
    {i \in EntriesOf(Payload.System.HostID) :
        overviewCall.body[i].Hostname = Payload.System.Hostname}

\* no system_metrics record of the posted series in the window is later
\* than the snapshot
PostedIsLatest ==
    \A p \in Matching(store, "system_metrics", overviewCall.at, activeHostLookback) :
       p.tags = CommonTags(Payload) => p.time <= Payload.CollectedAt

\* the Store accepted all points of the snapshot, and every root-path disk
\* record of the host in the window is of the posted series and not later
\* than the snapshot
PostedRootIsLatest ==
    /\ request.rejected = {}
    /\ \A p \in Matching(store, "disk_metrics", overviewCall.at, activeHostLookback) :
          (p.tags.host_id = Payload.System.HostID /\ p.tags.path = "/") =>
             /\ p.tags.hostname = Payload.System.Hostname
             /\ p.time <= Payload.CollectedAt

-----------------------------------------------------------------------------
(* Claims about the details *)

\* the system_metrics records of the asked host in the details' window
SystemRecords ==
    {p \in Matching(store, "system_metrics", detailsCall.at, defaultLookbackWindow) :
        p.tags.host_id = detailsCall.hostID}

\* C13: details of a host_id without a system_metrics record within the
\* 15 s lookback window fail with HostNotFound and the response is 404; a
\* Store error on the system query yields 500; neither response carries a
\* HostDetails body.
C13_NotFoundAndStoreError ==
    detailsCall.called =>
        /\ (detailsCall.faults.sys = "none" /\ SystemRecords = {}) =>
              /\ detailsCall.err = ErrNoSystemData(detailsCall.hostID)
              /\ detailsCall.code = 404
              /\ detailsCall.body = NoDetails
        /\ detailsCall.faults.sys # "none" =>
              /\ detailsCall.code = 500
              /\ detailsCall.body = NoDetails

\* the root-path disk_metrics records of the asked host in the window
RootDiskRecords ==
    {p \in Matching(store, "disk_metrics", detailsCall.at, defaultLookbackWindow) :
        p.tags.host_id = detailsCall.hostID /\ p.tags.path = "/"}

\* the last process_metrics records of the asked host in the window
ProcessRecords ==
    LastPerSeries(
       {p \in Matching(store, "process_metrics", detailsCall.at, defaultLookbackWindow) :
           p.tags.host_id = detailsCall.hostID})

\* the system query of the details found a record
SystemFound ==
    detailsCall.called /\ detailsCall.faults.sys = "none" /\ SystemRecords # {}

\* the entries of the returned process list
Listed == {detailsCall.body.Processes[i] : i \in 1..Len(detailsCall.body.Processes)}

\* C14: when the system query succeeds, the details are returned with 200
\* whatever the sub-queries do; a failed or empty root-disk query gives the
\* disk {path "/", all numbers 0}; a failed process leg takes away that
\* leg's values only: the other leg's value of every process is returned.
C14_SubQueriesRecovered ==
    SystemFound =>
        /\ detailsCall.code = 200
        /\ detailsCall.err = <<>>
        /\ detailsCall.body.ID = detailsCall.hostID
        /\ (detailsCall.faults.disk # "none" \/ RootDiskRecords = {}) =>
              detailsCall.body.Disk =
                 [Path |-> "/", TotalGB |-> 0, UsedGB |-> 0, FreeGB |-> 0,
                  UsagePercent |-> 0]
        /\ detailsCall.faults.mem = "query" =>
              \A entry \in Listed : entry.MemoryPercent = 0
        /\ detailsCall.faults.cpu = "query" =>
              \A entry \in Listed : entry.CPUPercent = 0
        /\ detailsCall.faults.cpu = "none" =>
              {<<entry.Name, entry.CPUPercent>> : entry \in Listed} =
                 {<<p.tags.name, p.fields.cpu_percent>> : p \in ProcessRecords}
        /\ detailsCall.faults.mem = "none" =>
              {<<entry.Name, entry.MemoryPercent>> : entry \in Listed} =
                 {<<p.tags.name, p.fields.mem_percent>> : p \in ProcessRecords}

\* details of a host with a root disk record and two processes in the
\* window, returned while the disk query and the memory leg fail
C14_Witness ==
    /\ SystemFound
    /\ detailsCall.faults.disk = "query"
    /\ detailsCall.faults.mem = "query"
    /\ detailsCall.faults.cpu = "none"
    /\ RootDiskRecords # {}
    /\ Cardinality(ProcessRecords) = 2
    /\ detailsCall.code = 200
    /\ detailsCall.body.Disk.Path = "/"
    /\ detailsCall.body.Disk.UsagePercent = 0
    /\ Len(detailsCall.body.Processes) = 2
    /\ \A entry \in Listed : entry.MemoryPercent = 0 /\ entry.CPUPercent > 0

-----------------------------------------------------------------------------
(* Claims about the process join *)

\* the records of a leg
RecordsOf(leg) == {leg[i] : i \in 1..Len(leg)}

\* the keys (pid, name) of the records of a leg
KeysOf(leg) == {<<r.pid, r.name>> : r \in RecordsOf(leg)}

\* the record of a key in a leg
RecordOf(leg, key) == CHOOSE r \in RecordsOf(leg) : <<r.pid, r.name>> = key

\* the positions of the joined list that hold the entry of a key
EntriesOfKey(key) ==
    {i \in 1..Len(joinCall.list) :
        /\ joinCall.list[i].PID = Sscan(key[1])
        /\ joinCall.list[i].Name = key[2]}

\* C15: for each key (pid, name) of a record of either leg the joined list
\* has one entry; its memory is the value of the memory leg's record, or 0
\* when the memory leg has none, and its cpu is the value of the cpu leg's
\* record, or 0 when the cpu leg has none.  A memory value seeded by
\* phase A is the one returned, whatever phase B does.
C15_TwoPhaseJoin ==
    joinCall.joined =>
        \A key \in KeysOf(joinCall.memRecs) \cup KeysOf(joinCall.cpuRecs) :
            /\ Cardinality(EntriesOfKey(key)) = 1
            /\ \A i \in EntriesOfKey(key) :
                  /\ joinCall.list[i].MemoryPercent =
                        IF key \in KeysOf(joinCall.memRecs)
                        THEN RecordOf(joinCall.memRecs, key).value ELSE 0
                  /\ joinCall.list[i].CPUPercent =
                        IF key \in KeysOf(joinCall.cpuRecs)
                        THEN RecordOf(joinCall.cpuRecs, key).value ELSE 0

\* a join of a key of both legs, a key of the memory leg only and a key of
\* the cpu leg only
C15_Witness ==
    /\ joinCall.joined
    /\ KeysOf(joinCall.memRecs) \cap KeysOf(joinCall.cpuRecs) # {}
    /\ KeysOf(joinCall.memRecs) \ KeysOf(joinCall.cpuRecs) # {}
    /\ KeysOf(joinCall.cpuRecs) \ KeysOf(joinCall.memRecs) # {}
    /\ \E i, j, k \in 1..Len(joinCall.list) :
          /\ joinCall.list[i].MemoryPercent > 0 /\ joinCall.list[i].CPUPercent > 0
          /\ joinCall.list[j].MemoryPercent > 0 /\ joinCall.list[j].CPUPercent = 0
          /\ joinCall.list[k].MemoryPercent = 0 /\ joinCall.list[k].CPUPercent > 0

\* C16: the joined list is in the ascending order of its entries' pid and
\* has one entry for each distinct key (pid, name) of the two legs.
C16_SortedOnePerKey ==
    joinCall.joined =>
        /\ \A i, j \in 1..Len(joinCall.list) :
              i < j => joinCall.list[i].PID <= joinCall.list[j].PID
        /\ Len(joinCall.list) =
              Cardinality(KeysOf(joinCall.memRecs) \cup KeysOf(joinCall.cpuRecs))
        /\ \A key \in KeysOf(joinCall.memRecs) \cup KeysOf(joinCall.cpuRecs) :
              Cardinality(EntriesOfKey(key)) = 1

\* a joined list of three keys with three pids, the cpu leg delivering the
\* greater pid first
C16_Witness ==
    /\ joinCall.joined
    /\ Len(joinCall.list) = 3
    /\ joinCall.list[1].PID < joinCall.list[2].PID
    /\ joinCall.list[2].PID < joinCall.list[3].PID
    /\ Len(joinCall.cpuRecs) = 2
    /\ Sscan(joinCall.cpuRecs[1].pid) > Sscan(joinCall.cpuRecs[2].pid)

-----------------------------------------------------------------------------
(* Claims about the history *)

\* the samples of the asked host in the asked range
HistorySamples ==
    {p \in Matching(store, "system_metrics", historyCall.at, historyCall.range) :
        p.tags.host_id = historyCall.hostID}

\* the request passed the checks of its parameters' form, lines 70-89
WellFormed ==
    /\ historyCall.called
    /\ historyCall.metricName # ""
    /\ historyCall.rangeOk
    /\ historyCall.aggregateOk

\* C17: a request for a metric outside {cpu_usage_percent,
\* mem_usage_percent, net_upload_bytes_sec, net_download_bytes_sec} is
\* answered 400 and no query is sent to the Store; the handler and the
\* reader hold the same list, and the reader on its own rejects such a
\* metric without a query.
C17_InvalidMetricRejected ==
    LET allowList == {"cpu_usage_percent", "mem_usage_percent",
                      "net_upload_bytes_sec", "net_download_bytes_sec"}
    IN  /\ allowedMetrics = allowList
        /\ validNumericFields = allowList
        /\ (historyCall.called /\ historyCall.metricName \notin allowList) =>
              /\ historyCall.code = 400
              /\ ~historyCall.queried
              /\ historyCall.body = <<>>
              /\ \A ret \in ReadHostMetricHistory(store, historyCall.hostID,
                                                   historyCall.metricName,
                                                   historyCall.range, historyCall.every,
                                                   historyCall.at, historyCall.fault) :
                    ret.err /\ ~ret.queried
        /\ (WellFormed /\ historyCall.metricName \in allowList) =>
              historyCall.queried

\* a well-formed request for mem_used_gb, a field the samples of the host
\* hold, is answered 400 without a query
C17_Witness ==
    /\ WellFormed
    /\ historyCall.metricName = "mem_used_gb"
    /\ HistorySamples # {}
    /\ historyCall.fault = "none"
    /\ historyCall.code = 400
    /\ ~historyCall.queried

\* the samples of the asked range that fall in window k of the asked width
SamplesIn(k) ==
    {p \in HistorySamples :
        k * historyCall.every <= p.time /\ p.time < (k + 1) * historyCall.every}

\* the windows of the asked range that hold samples
NonEmptyWindows ==
    {k \in ((historyCall.at - historyCall.range) \div historyCall.every)
             ..((historyCall.at - 1) \div historyCall.every) : SamplesIn(k) # {}}

\* the history was read and returned
HistoryReturned == WellFormed /\ historyCall.code = 200

\* C18: the returned history has one point for each window of the range
\* that holds samples of the host, its value the mean of the window's
\* samples; it has no point for a window without samples; its points are
\* in the ascending order of their time.
C18_OneMeanPerWindow ==
    HistoryReturned =>
        /\ Len(historyCall.body) = Len(historyCall.records)
        /\ Len(historyCall.records) = Cardinality(NonEmptyWindows)
        /\ \A k \in NonEmptyWindows :
              \E i \in 1..Len(historyCall.records) :
                 /\ historyCall.records[i].time =
                       Min((k + 1) * historyCall.every, historyCall.at)
                 /\ historyCall.records[i].value =
                       Mean(SamplesIn(k), historyCall.metricName)
                 /\ historyCall.body[i].Value = historyCall.records[i].value
        /\ \A i, j \in 1..Len(historyCall.records) :
              i < j => historyCall.records[i].time < historyCall.records[j].time

\* the samples of the asked host are of one series
OneSeries == Cardinality({p.tags : p \in HistorySamples}) <= 1

\* the property holds of a host whose samples are of one series
OneSeriesOneMeanPerWindow == OneSeries => C18_OneMeanPerWindow

\* a history of one series with two windows that hold samples, one of them
\* with two samples of different values, and a window between or beside
\* them without samples
OneSeriesReturned ==
    /\ HistoryReturned
    /\ OneSeries
    /\ Cardinality(NonEmptyWindows) = 2
    /\ \E k \in NonEmptyWindows :
          \E p, q \in SamplesIn(k) :
             p.fields[historyCall.metricName] # q.fields[historyCall.metricName]
    /\ Len(historyCall.body) = 2

-----------------------------------------------------------------------------
(* Claims about the dispatch loop's scheduling *)

\* C19: at most one call of collectAndSendStats is outstanding at any time,
\* and while one is outstanding no step starts another: a value the ticker
\* delivers meanwhile waits in the channel (a further one is dropped) until
\* the call has returned.
C19_OneTickInFlight ==
    /\ [](ticks.inFlight <= 1)
    /\ [][ticks.inFlight > 0 => ticks'.inFlight <= ticks.inFlight]_vars
    /\ [][(agentPc = "sending" /\ agentPc' = "sending") =>
              /\ lastTick' = lastTick
              /\ previousNetCounters' = previousNetCounters
              /\ previousNetCollectionTime' = previousNetCollectionTime]_vars

\* the ticker has fired while the send of a collection is outstanding
C19_Witness ==
    /\ agentPc = "sending"
    /\ ticks.inFlight = 1
    /\ tickPending
    /\ lastTick.ran
    /\ lastTick.rateCalled
    /\ ~ctxCancelled

C21_ShutdownCompletesTick ==
    /\ [](agentPc = "exited" => ticks.inFlight = 0)
    /\ [][agentPc' = "exited" => (agentPc = "loop" /\ ticks.inFlight = 0)]_vars
    /\ (ctxCancelled /\ ticks.inFlight > 0) ~> (ticks.inFlight = 0)
    /\ ctxCancelled ~> (agentPc \in {"exited", "panicked"})

\* the context is cancelled while the send of a collection is outstanding
C21_Witness ==
    /\ agentPc = "sending"
    /\ ctxCancelled
    /\ ticks.inFlight = 1
    /\ lastTick.sent
    /\ ~lastTick.sendOk

\* the send of the last collection has returned with an error
SendFailed ==
    /\ lastTick.ran
    /\ agentPc = "loop"
    /\ ticks.inFlight = 0
    /\ ~lastTick.sendOk

\* C23: a snapshot is handed to SendStatsJSON once and never again: a send
\* is made only by a collection that has just sampled, and the return of a
\* send, failed or not, takes main to the select of the loop with the
\* snapshot left as it is.  A failed send does not end the process: the
\* loop is ready to take the next value of the ticker, and taking it
\* starts a new collection unless the context is cancelled.
C23_AtMostOnceDelivery ==
    /\ [](lastTick.sends <= 1)
    /\ [](lastTick.ran => lastTick.sends = 1)
    /\ [][lastTick'.sends # lastTick.sends \/ lastTick'.sent # lastTick.sent =>
              /\ agentPc \in {"initial", "loop"}
              /\ lastTick'.CollectedAt = now
              /\ lastTick'.sends = 1]_vars
    /\ [][(agentPc = "sending" /\ agentPc' # "sending") =>
              /\ agentPc' = "loop"
              /\ lastTick' = [lastTick EXCEPT !.sendOk = lastTick'.sendOk]]_vars
    /\ [][(SendFailed /\ tickPending /\ ~tickPending' /\ ~ctxCancelled) =>
              \/ agentPc' = "sending" /\ lastTick'.CollectedAt = now
                                      /\ ticks'.inFlight = 1
              \/ agentPc' = "panicked"]_vars
    /\ []((SendFailed /\ tickPending) => ENABLED LoopTick)

\* a send has failed, the context is not cancelled and the ticker's next
\* value waits at the select
C23_Witness ==
    /\ SendFailed
    /\ lastTick.sends = 1
    /\ lastTick.sent
    /\ tickPending
    /\ ~ctxCancelled

\* the stored pair (previousNetCounters, previousNetCollectionTime)
StoredPair == <<previousNetCounters, previousNetCollectionTime>>

\* a step in which collectAndSendStats samples
Samples == lastTick'.ran /\ lastTick' # lastTick /\ lastTick'.sends = 1
              /\ agentPc \in {"initial", "loop"}

\* C24: the stored pair changes only in a step of main's goroutine that
\* has read the counters (the baseline of lines 83-88 or a collection), and
\* then both parts are replaced together by the sample read and the time
\* of the read.  A collection that reads the counters stores them, also
\* when the rate computation fails; one that cannot read them leaves the
\* pair as it is.  The pair is that of the last collection that read them.
C24_PreviousSampleState ==
    /\ [][StoredPair' # StoredPair =>
              /\ agentPc \in {"start", "initial", "loop"}
              /\ agentPc' \in {"initial", "sending", "panicked"}
              /\ previousNetCollectionTime' = now]_vars
    /\ [][Samples =>
              IF lastTick'.readErr
              THEN StoredPair' = StoredPair
              ELSE StoredPair' = <<lastTick'.current, now>>]_vars
    /\ []((lastTick.ran /\ ~lastTick.readErr /\ agentPc # "panicked") =>
              StoredPair = <<lastTick.current, lastTick.CollectedAt>>)
    /\ []((lastTick.ran /\ lastTick.readErr /\ agentPc # "panicked") =>
              StoredPair[1] = lastTick.previous)

\* a collection whose rate computation failed has stored the sample it
\* read, a sample other than the one stored before
C24_Witness ==
    /\ lastTick.ran
    /\ ~lastTick.readErr
    /\ lastTick.rateCalled
    /\ lastTick.rateErr
    /\ lastTick.current # lastTick.previous
    /\ StoredPair = <<lastTick.current, lastTick.CollectedAt>>

-----------------------------------------------------------------------------
(* Claims about the sampling tick *)

\* the field of the snapshot a family fills is at its zero value
FieldEmpty(family) ==
    CASE family = "system"    -> tickCall.System = ZeroSystem
      [] family = "cpu"       -> tickCall.CPU = ZeroCPU
      [] family = "memory"    -> tickCall.Memory = ZeroMemory
      [] family = "network"   -> tickCall.Network = NetworkData("")
      [] family = "processes" -> tickCall.Processes = <<>>
      [] family = "disk"      -> tickCall.Disks = <<>>

\* C22: whatever families of probes fail in a tick, the tick is not
\* aborted: the field of each failed family is empty or zero and the
\* snapshot is handed to SendStatsJSON exactly once.
C22_PartialSuccessTick ==
    tickCall.called =>
        /\ ~tickCall.panicked
        /\ tickCall.sends = 1
        /\ \A family \in Failed(tickCall.probes) : FieldEmpty(family)

\* the tick survives the failures of the probes other than the disk's
SurvivesOtherFailures ==
    (tickCall.called /\ tickCall.probes.disk = "ok") =>
        /\ ~tickCall.panicked
        /\ tickCall.sends = 1
        /\ \A family \in Failed(tickCall.probes) \ {"cpu"} : FieldEmpty(family)
        /\ tickCall.probes.cpu # "ok" => tickCall.CPU.Usage = 0

\* the process entries ingested for the asked host whose records lie in the
\* window of the details query
IngestedProcesses ==
    {proc \in {DetailProcesses[i] : i \in DOMAIN DetailProcesses} :
        \E p \in ProcessRecords :
           p.tags.pid = PidTag(proc.PID) /\ p.tags.name = proc.Name}

\* a details request answered with none of its queries failing
DetailsComplete ==
    /\ detailsCall.called
    /\ detailsCall.code = 200
    /\ detailsCall.faults = NoFaults

\* C26: for every process entry ingested with pid p and name n, a details
\* query within the lookback window returns a process entry whose pid is p
\* and whose name is n.
C26_PidRoundTrip ==
    DetailsComplete =>
        \A proc \in IngestedProcesses :
           \E i \in DOMAIN detailsCall.body.Processes :
              /\ detailsCall.body.Processes[i].PID = proc.PID
              /\ detailsCall.body.Processes[i].Name = proc.Name

\* what the code does return: an entry of the same name whose pid is the
\* number read from the text of the one character with code point p
PidAsReturned ==
    DetailsComplete =>
        \A proc \in IngestedProcesses :
           \E i \in DOMAIN detailsCall.body.Processes :
              /\ detailsCall.body.Processes[i].PID = Sscan(PidTag(proc.PID))
              /\ detailsCall.body.Processes[i].Name = proc.Name

\* the details of a host whose process of pid 50 is returned with pid 2
PidAsReturnedSeen ==
    /\ DetailsComplete
    /\ \E proc \in IngestedProcesses : proc.PID = 50
    /\ \E i \in DOMAIN detailsCall.body.Processes :
          detailsCall.body.Processes[i].PID = 2

-----------------------------------------------------------------------------
(* Claims about the two lookback windows *)

\* the overview and the details were read with no query failing
OverviewListed == overviewCall.called /\ overviewCall.fault = "none"
DetailsFound == detailsCall.called /\ detailsCall.code = 200

SameInstant ==
    /\ OverviewListed
    /\ detailsCall.called
    /\ detailsCall.faults.sys = "none"
    /\ detailsCall.at = overviewCall.at

\* the time of the latest system_metrics record of the asked host that the
\* Store holds before the reader's clock reading
LatestSeen ==
    LET times == {p.time : p \in {q \in store : /\ q.measurement = "system_metrics"
                                                /\ q.tags.host_id = detailsCall.hostID
                                                /\ q.time < detailsCall.at}}
    IN  IF times = {} THEN -1
        ELSE CHOOSE t \in times : \A u \in times : u <= t

\* the latest record of the asked host is older than 15 s and not older
\* than 30 s
BetweenWindows ==
    /\ LatestSeen >= 0
    /\ detailsCall.at - LatestSeen > defaultLookbackWindow
    /\ detailsCall.at - LatestSeen <= activeHostLookback

IngestedMemory ==
    HostSnapshot(MaxTimestamp, [HostID |-> "h1", Hostname |-> "web"], 40, 60,
                 <<>>, <<>>).Memory

\* the details return the ingested memory figures
MemoryReturned ==
    DetailsFound =>
        /\ detailsCall.body.Memory.UsagePercent = IngestedMemory.UsagePercent
        /\ detailsCall.body.RAMUsage = IngestedMemory.UsagePercent
        /\ detailsCall.body.Memory.TotalGB = IngestedMemory.TotalGB
        /\ detailsCall.body.Memory.AvailableGB = IngestedMemory.FreeGB

\* the stored mem_used_gb of the records read is a number of gigabytes of
\* the host's memory, not the usage percent: it is at most the total, which
\* the usage percent of the ingested snapshots exceeds
UsedIsGigabytes ==
    DetailsFound =>
        \A p \in SystemRecords :
           /\ p.fields.mem_used_gb <= p.fields.mem_total_gb
           /\ p.fields.mem_used_gb # p.fields.mem_usage_percent

\* C30: for an ingested snapshot with memory usage_percent u, total_gb t and
\* available gb a, a details query within the lookback window returns
\* memory.usage_percent = u, ramUsage = u, memory.total_gb = t and
\* memory.free_gb = a, and every stored memory field has one meaning: the
\* stored mem_used_gb is not a second copy of the usage percent.
C30_MemoryFieldRoundTrip == MemoryReturned /\ UsedIsGigabytes

\* what the code stores: mem_used_gb is the usage percent, in every record
UsedIsPercent ==
    \A p \in store :
       p.measurement = "system_metrics" =>
           p.fields.mem_used_gb = p.fields.mem_usage_percent

\* details whose memory usage was read from the stored mem_used_gb
UsedIsPercentSeen ==
    /\ DetailsFound
    /\ \E p \in SystemRecords :
          detailsCall.body.Memory.UsagePercent = p.fields.mem_used_gb
    /\ detailsCall.body.Memory.UsagePercent > detailsCall.body.Memory.TotalGB

-----------------------------------------------------------------------------
(* Claims about concurrent requests *)

\* what request id writes and answers when it is served alone
Alone(h) ==
    IF Validate(h.body) # ""
    THEN [writes |-> <<>>, code |-> 400]
    ELSE LET ret == WriteStats(h.body.payload, h.rejected)
         IN  [writes |-> ret.writes, code |-> IF ret.err THEN 500 ELSE 200]

\* C25: in every interleaving of concurrent ingestion requests and a
\* concurrent query, the writes a request has made are a prefix of the
\* writes it makes when served alone, and all of them once it has answered,
\* with the same status code; a step of one request changes no other
\* request's state, and a query changes neither the requests nor the Store
C25_RequestIndependence ==
    /\ [](handlers # NoHandlers =>
            \A id \in HandlerIDs :
               LET h == handlers[id]
               IN  h.pc # "idle" =>
                     /\ Len(h.written) <= Len(Alone(h).writes)
                     /\ h.written = SubSeq(Alone(h).writes, 1, Len(h.written))
                     /\ h.pc = "done" =>
                           /\ h.written = Alone(h).writes
                           /\ h.code = Alone(h).code)
    /\ [][handlers # NoHandlers =>
            /\ \A id, other \in HandlerIDs :
                  (id # other /\ handlers'[id] # handlers[id])
                      => handlers'[other] = handlers[other]
            /\ overviewCall' # overviewCall
                  => (handlers' = handlers /\ store' = store)]_vars

\* both requests are between two of their writes, on the same series
C25_Witness ==
    /\ handlers # NoHandlers
    /\ \A id \in HandlerIDs :
          /\ handlers[id].pc = "writing"
          /\ handlers[id].next = 2
    /\ handlers["r1"].body # handlers["r2"].body
    /\ overviewCall.called

\* the requests answered 400
Rejected(hs) == {id \in HandlerIDs : hs[id].pc = "done" /\ hs[id].code = 400}

\* C29: a payload that fails the checks of ingestion (malformed, empty
\* host_id or zero collected_at) causes no Store write: the request makes no
\* WritePoint call and the step that rejects it leaves the stored points
\* unchanged.
C29_RejectedWritesNothing ==
    /\ [](handlers # NoHandlers =>
            \A id \in HandlerIDs :
               (handlers[id].pc # "idle" /\ Validate(handlers[id].body) # "") =>
                   /\ id \in Rejected(handlers)
                   /\ handlers[id].written = <<>>)
    /\ [][handlers # NoHandlers =>
            /\ Rejected(handlers') # Rejected(handlers) => store' = store
            /\ \A id \in Rejected(handlers) : handlers'[id] = handlers[id]]_vars

\* a request with a zero collected_at was rejected while the Store holds
\* the points of the other request
C29_Witness ==
    /\ handlers # NoHandlers
    /\ store # {}
    /\ Rejected(handlers) # {}
    /\ \E id \in Rejected(handlers) :
          Validate(handlers[id].body) = ErrMissingTimestamp

====
